---- MODULE Spec2Model ----
(***************************************************************************)
(* A model of the groupme-cli core: the cursor-based pagination layer      *)
(* (get_group_messages_latest, get_direct_messages, export_group_messages, *)
(* search_direct_messages), the aggregator stats_from_messages and the     *)
(* push client watch_group.                                                *)
(*                                                                         *)
(* Messages of the REST collection are represented by their identifiers:   *)
(* a resource of `total` items holds the ids total, total-1, ..., 1 in     *)
(* newest-first order.  None is represented by NoCursor (a falsy value).   *)
(***************************************************************************)
EXTENDS Integers, Sequences, FiniteSets, TLC

\* ------------------------------------------------------------------ bounds
MaxItems == 240        \* largest resource size M explored
MaxLimit == 203        \* largest limit N passed to a bounded fetch
MaxMsgs == 2           \* longest message sequence given to stats_from_messages
MaxChannels == 2       \* most channels given to watch_group
MaxBatch == 2          \* longest batch (list frame) the server sends
MaxFrames == 3         \* most frames the server sends in one session
MaxIds == 2            \* longest list given to bulk_like / bulk_unlike
MaxGroups == 35        \* most groups a user has
MaxLong == 12          \* length of the long message sequences given to stats_from_messages

\* --------------------------------------------------------- program constants
NoCursor == 0          \* before_id = None
DefaultMaxPages == 10  \* search_direct_messages(max_pages=10)

VARIABLES
    \* --- pagination call (one call of one of the four paginators)
    op,          \* which paginator runs: "latest", "direct", "export", "search"
    total,       \* size M of the resource on the server
    limit,       \* argument limit of the bounded fetch
    query,       \* argument query of the search
    max_pages,   \* argument max_pages of the search
    ppc,         \* position of the call: "call", "loop", "return", "done", "raised"
    collected,   \* local collected (bounded fetch)
    remaining,   \* local remaining (bounded fetch)
    before_id,   \* local before_id (all paginators)
    pages,       \* local pages (search)
    results,     \* local results (search)
    yielded,     \* items the export generator has yielded so far
    reqs,        \* history: the page requests sent, in order
    short,       \* history: a page came back empty or short
    ret,         \* the value returned to the caller
    \* --- stats_from_messages (one call)
    stat_messages, \* argument messages
    spc,           \* position of the call: "call", "done"
    stats,         \* the dict returned
    \* --- watch_group (one watch session)
    channels,    \* argument channels
    wpc,         \* position of the generator: "start", "hs_send", "hs_recv",
                 \* "sub_send", "sub_recv", "listen", "demux", "yield", "done"
    conn,        \* the websocket: "none", "open", "closed"
    closes,      \* history: how many times the websocket was closed
    sent,        \* history: the messages sent with ws.send, in order
    wire,        \* the frame in flight from the server, NoFrame when none
    nframes,     \* history: how many frames the server has sent
    hs_resp,     \* local resp (the handshake reply), kept until the listen loop is entered
    client_id,   \* local client_id
    ch_i,        \* position of `for ch in channels`
    envelopes,   \* the envelopes of the current frame still to be looked at
    delivered,   \* history: the payloads yielded to the consumer, in order
    werr,        \* the exception that ended the session, "none" when none
    \* --- a caller that makes the same bounded fetch twice
    ncall,       \* which call is running: 1 or 2
    first,       \* history: what the first call returned and requested
    other,       \* the locals of a second bounded fetch running at the same time
    \* --- bulk_like / bulk_unlike (one call)
    bulk_op,     \* which helper runs: "like", "unlike"
    ids,         \* argument ids
    bpc,         \* position of the call: "call", "loop", "done"
    bi,          \* position of `for item in ids`
    ok,          \* local ok
    errors,      \* local errors
    posts,       \* history: the like/unlike requests sent, in order
    tried,       \* history: how each item went: "ok", "failed", "missing"
    summary,     \* the dict returned
    \* --- GroupMeClient._request (one call)
    raw,         \* argument raw
    req_path,    \* argument path
    rpc,         \* position of the call: "call", "status", "parse", "done"
    http_resp,   \* local resp, the reply of the HTTP session
    result,      \* how the call ended: the value returned or the exception raised
    \* --- list_all_groups (one call)
    ngroups,     \* how many groups the user has
    gpc,         \* position of the call: "call", "loop", "done", "raised"
    page,        \* local page
    all_groups,  \* local all_groups
    page_reqs,   \* history: the page numbers requested, in order
    groups_ret   \* the list returned

pageVars == <<op, total, limit, query, max_pages, ppc, collected, remaining,
              before_id, pages, results, yielded, reqs, short, ret>>

statVars == <<stat_messages, spc, stats>>

watchVars == <<channels, wpc, conn, closes, sent, wire, nframes, hs_resp, client_id, ch_i,
               envelopes, delivered, werr>>

callVars == <<ncall, first, other>>

bulkVars == <<bulk_op, ids, bpc, bi, ok, errors, posts, tried, summary>>

httpVars == <<raw, req_path, rpc, http_resp, result>>

groupVars == <<ngroups, gpc, page, all_groups, page_reqs, groups_ret>>

\* the calls that share nothing with a paginator, the aggregator or a watch session
moreVars == <<callVars, bulkVars, httpVars, groupVars>>

vars == <<pageVars, statVars, watchVars, moreVars>>

\* ------------------------------------------------------------------ helpers
Min(a, b) == IF a < b THEN a ELSE b
Max(a, b) == IF a > b THEN a ELSE b
Last(s) == s[Len(s)]

\* the sequences over S of length at most n
SeqsUpTo(S, n) == UNION {[1..k -> S] : k \in 0..n}

\* collected[:n] for n >= 0
Prefix(s, n) == SubSeq(s, 1, Min(n, Len(s)))

\* a paginator that never sends its cursor
CursorParam_Dropped(b) == NoCursor

\* params["before_id"], set only `if before_id:`
CursorParam(b) == IF b # NoCursor THEN b ELSE NoCursor

\* a paginator that takes the newest item of the page as the next cursor
NextCursor_First(messages) == messages[1]

\* before_id = messages[-1]["id"]
NextCursor(messages) == Last(messages)

\* a paginator that does not stop at a short page
PageEnds_Never(n, requested) == FALSE

\* `if len(messages) < batch_limit: break`
PageEnds(n, requested) == n < requested

\* ------------------------------------------------------- the REST collaborator
\* The page the server returns: the newest `lim` items older than `before`
\* (all items when no cursor is given), newest first.
ServePage(m, before, lim) ==
    LET start == IF before = NoCursor THEN m ELSE Min(before - 1, m)
        n == Min(lim, Max(start, 0))
    IN [i \in 1..n |-> start + 1 - i]

\* The key under which each endpoint returns its page.
KeyOf(path) == IF path = "/direct_messages" THEN "direct_messages" ELSE "messages"

\* The "response" section _request returns for a successful GET of `path`.
Request(path, m, before, lim) ==
    [key |-> KeyOf(path), items |-> ServePage(m, before, lim)]

\* resp.get(key, []) if isinstance(resp, dict) else []
GetList(resp, key) == IF resp.key = key THEN resp.items ELSE <<>>

\* ------------------------------------------------------------ message texts
\* A text is a sequence of characters; NoText is a message without text.
NoText == <<"<None>">>
HelloWorld == <<"h","e","l","l","o"," ","w","o","r","l","d">>
HelloThere == <<"H","E","L","L","O"," ","t","h","e","r","e">>
Bye == <<"b","y","e">>
OhHello == <<"o","h"," ","h","E","l","l","o">>
Hell == <<"h","e","l","l">>
TextPool == <<HelloWorld, HelloThere, Bye, NoText, OhHello, Hell, <<>> >>

\* m.get("text") of the message with identifier id
Text(id) == TextPool[(id % Len(TextPool)) + 1]

Queries == { <<"h","e","l","l","o">>, <<"H","e","L","L","O">>, <<"l","o"," ","W">>,
             <<"b","y","e","!">>, <<>>, NoText }
MaxPagesArgs == {1, 2, DefaultMaxPages}

\* conversations long enough for the default page cap to end a search
LongChats == {100 * DefaultMaxPages, 100 * DefaultMaxPages + 37}

\* x or ""
OrEmpty(t) == IF t = NoText THEN <<>> ELSE t

\* str.lower() on the alphabet of the texts
LowerChar(c) ==
    CASE c = "H" -> "h" [] c = "E" -> "e" [] c = "L" -> "l" [] c = "O" -> "o"
      [] c = "W" -> "w" [] OTHER -> c
Lower(t) == [i \in 1..Len(t) |-> LowerChar(t[i])]

\* q in text
Contains(q, text) ==
    \E i \in 0..(Len(text) - Len(q)) : SubSeq(text, i + 1, i + Len(q)) = q

\* ------------------------------------------------ bounded fetch (latest N)
\* a bounded fetch that starts from the cursor it finds
BoundedEnter_KeepCursor(o) ==
    /\ op = o /\ ppc = "call"
    /\ IF limit <= 0
       THEN /\ ret' = <<>> /\ ppc' = "done"
            /\ UNCHANGED <<collected, before_id, remaining>>
       ELSE /\ collected' = <<>> /\ remaining' = limit
            /\ ppc' = "loop" /\ UNCHANGED <<ret, before_id>>
    /\ UNCHANGED <<op, total, limit, query, max_pages, pages, results, yielded, reqs, short,
                   statVars, watchVars, moreVars>>

\* get_group_messages_latest / get_direct_messages: the guard and the locals
BoundedEnter(o) ==
    /\ op = o /\ ppc = "call"
    /\ IF limit <= 0
       THEN /\ ret' = <<>> /\ ppc' = "done"
            /\ UNCHANGED <<collected, before_id, remaining>>
       ELSE /\ collected' = <<>> /\ before_id' = NoCursor /\ remaining' = limit
            /\ ppc' = "loop" /\ UNCHANGED ret
    /\ UNCHANGED <<op, total, limit, query, max_pages, pages, results, yielded, reqs, short,
                   statVars, watchVars, moreVars>>

\* an iteration that asks for a full page of 100 whatever remains
BoundedIter_FullPage(o, path, key) ==
    /\ op = o /\ ppc = "loop" /\ remaining > 0
    /\ LET batch_limit == 100
           resp == Request(path, total, CursorParam(before_id), batch_limit)
           messages == GetList(resp, key)
       IN /\ reqs' = Append(reqs, [before_id |-> CursorParam(before_id), limit |-> batch_limit])
          /\ short' = (Len(messages) < batch_limit)
          /\ IF messages = <<>>
             THEN /\ ppc' = "return"
                  /\ UNCHANGED <<collected, remaining, before_id>>
             ELSE /\ collected' = collected \o messages
                  /\ remaining' = limit - Len(collected')
                  /\ before_id' = NextCursor(messages)
                  /\ ppc' = IF PageEnds(Len(messages), batch_limit) THEN "return" ELSE "loop"
    /\ UNCHANGED <<op, total, limit, query, max_pages, pages, results, yielded, ret,
                   statVars, watchVars, moreVars>>

\* one iteration of `while remaining > 0`
BoundedIter(o, path, key) ==
    /\ op = o /\ ppc = "loop" /\ remaining > 0
    /\ LET batch_limit == Min(100, remaining)
           resp == Request(path, total, CursorParam(before_id), batch_limit)
           messages == GetList(resp, key)
       IN /\ reqs' = Append(reqs, [before_id |-> CursorParam(before_id), limit |-> batch_limit])
          /\ short' = (Len(messages) < batch_limit)
          /\ IF messages = <<>>
             THEN /\ ppc' = "return"
                  /\ UNCHANGED <<collected, remaining, before_id>>
             ELSE /\ collected' = collected \o messages
                  /\ remaining' = limit - Len(collected')
                  /\ before_id' = NextCursor(messages)
                  /\ ppc' = IF PageEnds(Len(messages), batch_limit) THEN "return" ELSE "loop"
    /\ UNCHANGED <<op, total, limit, query, max_pages, pages, results, yielded, ret,
                   statVars, watchVars, moreVars>>

\* the page request raises GroupMeAPIError: it propagates, nothing is returned
BoundedFail(o) ==
    /\ op = o /\ ppc = "loop" /\ remaining > 0
    /\ reqs' = Append(reqs, [before_id |-> CursorParam(before_id), limit |-> Min(100, remaining)])
    /\ ppc' = "raised"
    /\ UNCHANGED <<op, total, limit, query, max_pages, collected, remaining, before_id,
                   pages, results, yielded, short, ret,
                   statVars, watchVars, moreVars>>

\* a bounded fetch that swallows the error and returns what it has collected
BoundedReturn_AfterError(o) ==
    /\ op = o
    /\ ppc \in {"return", "raised"} \/ (ppc = "loop" /\ remaining <= 0)
    /\ ret' = Prefix(collected, limit)
    /\ ppc' = "done"
    /\ UNCHANGED <<op, total, limit, query, max_pages, collected, remaining, before_id,
                   pages, results, yielded, reqs, short,
                   statVars, watchVars, moreVars>>

\* a bounded fetch that returns everything it collected
BoundedReturn_Uncut(o) ==
    /\ op = o
    /\ ppc = "return" \/ (ppc = "loop" /\ remaining <= 0)
    /\ ret' = collected
    /\ ppc' = "done"
    /\ UNCHANGED <<op, total, limit, query, max_pages, collected, remaining, before_id,
                   pages, results, yielded, reqs, short,
                   statVars, watchVars, moreVars>>

\* return collected[:limit]
BoundedReturn(o) ==
    /\ op = o
    /\ ppc = "return" \/ (ppc = "loop" /\ remaining <= 0)
    /\ ret' = Prefix(collected, limit)
    /\ ppc' = "done"
    /\ UNCHANGED <<op, total, limit, query, max_pages, collected, remaining, before_id,
                   pages, results, yielded, reqs, short,
                   statVars, watchVars, moreVars>>

GetGroupMessagesLatestEnter == BoundedEnter("latest")
GetGroupMessagesLatestIter == BoundedIter("latest", "/groups/messages", "messages")
GetGroupMessagesLatestFail == BoundedFail("latest")
GetGroupMessagesLatestReturn == BoundedReturn("latest")
GetDirectMessagesEnter == BoundedEnter("direct")
GetDirectMessagesIter == BoundedIter("direct", "/direct_messages", "direct_messages")
GetDirectMessagesFail == BoundedFail("direct")
GetDirectMessagesReturn == BoundedReturn("direct")

\* A second call of get_group_messages_latest, made by another invocation
\* while the first pagination call runs: its arguments (total is the size of
\* the resource it reads, limit), its locals, the requests it sent and what
\* it returned.
NoOther ==
    [pc |-> "idle", total |-> 0, limit |-> 0, collected |-> <<>>, remaining |-> 0,
     before_id |-> NoCursor, reqs |-> <<>>, ret |-> <<>>]

\* the guard and the locals of the second call
OtherEnter ==
    /\ other.pc = "call"
    /\ other' = IF other.limit <= 0
                THEN [other EXCEPT !.ret = <<>>, !.pc = "done"]
                ELSE [other EXCEPT !.collected = <<>>, !.before_id = NoCursor,
                                   !.remaining = other.limit, !.pc = "loop"]
    /\ UNCHANGED <<pageVars, statVars, watchVars, ncall, first, bulkVars, httpVars, groupVars>>

\* a second call that keeps its cursor where the first call keeps its own
OtherIter_SharedCursor ==
    /\ other.pc = "loop" /\ other.remaining > 0
    /\ LET batch_limit == Min(100, other.remaining)
           resp == Request("/groups/messages", other.total, CursorParam(before_id), batch_limit)
           messages == GetList(resp, "messages")
       IN /\ other' = IF messages = <<>>
                      THEN [other EXCEPT !.pc = "return",
                               !.reqs = Append(@, [before_id |-> CursorParam(before_id),
                                                   limit |-> batch_limit])]
                      ELSE [other EXCEPT
                               !.reqs = Append(@, [before_id |-> CursorParam(before_id),
                                                   limit |-> batch_limit]),
                               !.collected = @ \o messages,
                               !.remaining = other.limit - Len(other.collected \o messages),
                               !.pc = IF PageEnds(Len(messages), batch_limit)
                                      THEN "return" ELSE "loop"]
          /\ before_id' = IF messages = <<>> THEN before_id ELSE NextCursor(messages)
    /\ UNCHANGED <<op, total, limit, query, max_pages, ppc, collected, remaining,
                   pages, results, yielded, reqs, short, ret,
                   statVars, watchVars, ncall, first, bulkVars, httpVars, groupVars>>

\* one iteration of `while remaining > 0` of the second call
OtherIter ==
    /\ other.pc = "loop" /\ other.remaining > 0
    /\ LET batch_limit == Min(100, other.remaining)
           resp == Request("/groups/messages", other.total, CursorParam(other.before_id),
                           batch_limit)
           messages == GetList(resp, "messages")
           sent_req == [before_id |-> CursorParam(other.before_id), limit |-> batch_limit]
       IN other' = IF messages = <<>>
                   THEN [other EXCEPT !.reqs = Append(@, sent_req), !.pc = "return"]
                   ELSE [other EXCEPT
                            !.reqs = Append(@, sent_req),
                            !.collected = @ \o messages,
                            !.remaining = other.limit - Len(other.collected \o messages),
                            !.before_id = NextCursor(messages),
                            !.pc = IF PageEnds(Len(messages), batch_limit)
                                   THEN "return" ELSE "loop"]
    /\ UNCHANGED <<pageVars, statVars, watchVars, ncall, first, bulkVars, httpVars, groupVars>>

\* return collected[:limit] of the second call
OtherReturn ==
    /\ other.pc = "return" \/ (other.pc = "loop" /\ other.remaining <= 0)
    /\ other' = [other EXCEPT !.ret = Prefix(other.collected, other.limit), !.pc = "done"]
    /\ UNCHANGED <<pageVars, statVars, watchVars, ncall, first, bulkVars, httpVars, groupVars>>

\* The caller repeats the bounded fetch it has just got the result of: same
\* method, same arguments, same resource.  What the first call left behind
\* stays where it is; the request log starts again.
\* one iteration of `while remaining > 0` of either bounded fetch against a
\* server that does as it likes: it may return fewer or more items than were
\* asked for, and it may ignore the cursor and serve the newest items again
BoundedIterAnyServer ==
    /\ op \in {"latest", "direct"} /\ ppc = "loop" /\ remaining > 0
    /\ LET batch_limit == Min(100, remaining)
       IN \E n \in {0, batch_limit - 1, batch_limit, batch_limit + 1, 2 * batch_limit, MaxItems},
             b \in {NoCursor, CursorParam(before_id)} :
            LET messages == ServePage(total, b, n)
            IN /\ reqs' = Append(reqs, [before_id |-> CursorParam(before_id),
                                        limit |-> batch_limit])
               /\ short' = (Len(messages) < batch_limit)
               /\ IF messages = <<>>
                  THEN /\ ppc' = "return"
                       /\ UNCHANGED <<collected, remaining, before_id>>
                  ELSE /\ collected' = collected \o messages
                       /\ remaining' = limit - Len(collected')
                       /\ before_id' = NextCursor(messages)
                       /\ ppc' = IF PageEnds(Len(messages), batch_limit)
                                 THEN "return" ELSE "loop"
    /\ UNCHANGED <<op, total, limit, query, max_pages, pages, results, yielded, ret,
                   statVars, watchVars, moreVars>>

NoFirst == [ret |-> <<>>, reqs |-> <<>>]

CallAgain ==
    /\ op \in {"latest", "direct"} /\ ppc = "done" /\ ncall = 1
    /\ first' = [ret |-> ret, reqs |-> reqs]
    /\ ncall' = 2
    /\ ppc' = "call" /\ reqs' = <<>> /\ short' = FALSE /\ ret' = <<>>
    /\ UNCHANGED <<op, total, limit, query, max_pages, collected, remaining, before_id,
                   pages, results, yielded, other,
                   statVars, watchVars, bulkVars, httpVars, groupVars>>

CallOnce == ncall = 1 /\ first = NoFirst /\ other = NoOther

CallIdle == ncall = 0 /\ first = NoFirst /\ other = NoOther

\* ------------------------------------------------------------- full export
\* get_group_messages / get_direct_messages_raw: params["limit"]
ClampLimit(l) == Min(Max(l, 1), 100)

\* export_group_messages: before_id = None
ExportEnter ==
    /\ op = "export" /\ ppc = "call"
    /\ before_id' = NoCursor /\ ppc' = "loop"
    /\ UNCHANGED <<op, total, limit, query, max_pages, collected, remaining, pages,
                   results, yielded, reqs, short, ret,
                   statVars, watchVars, moreVars>>

\* one iteration of `while True`: fetch a page and yield its messages
ExportIter ==
    /\ op = "export" /\ ppc = "loop"
    /\ LET resp == Request("/groups/messages", total, CursorParam(before_id), ClampLimit(100))
           messages == GetList(resp, "messages")
       IN /\ reqs' = Append(reqs, [before_id |-> CursorParam(before_id), limit |-> ClampLimit(100)])
          /\ short' = (Len(messages) < 100)
          /\ IF messages = <<>>
             THEN /\ ppc' = "done"
                  /\ UNCHANGED <<yielded, before_id>>
             ELSE /\ yielded' = yielded \o messages
                  /\ before_id' = NextCursor(messages)
                  /\ ppc' = IF PageEnds(Len(messages), 100) THEN "done" ELSE "loop"
    /\ UNCHANGED <<op, total, limit, query, max_pages, collected, remaining, pages, results, ret,
                   statVars, watchVars, moreVars>>

ExportFail ==
    /\ op = "export" /\ ppc = "loop"
    /\ reqs' = Append(reqs, [before_id |-> CursorParam(before_id), limit |-> ClampLimit(100)])
    /\ ppc' = "raised"
    /\ UNCHANGED <<op, total, limit, query, max_pages, collected, remaining, before_id,
                   pages, results, yielded, short, ret,
                   statVars, watchVars, moreVars>>

\* ----------------------------------------------------------------- DM search
\* q = (query or "").lower()
Q == Lower(OrEmpty(query))

\* a search that lowers the query and leaves the text as it is
Matches_TextNotLowered(m) == Contains(Q, OrEmpty(Text(m)))

\* text = (m.get("text") or "").lower(); q in text
Matches(m) == Contains(Q, Lower(OrEmpty(Text(m))))

SearchEnter ==
    /\ op = "search" /\ ppc = "call"
    /\ results' = <<>> /\ before_id' = NoCursor /\ pages' = 0 /\ ppc' = "loop"
    /\ UNCHANGED <<op, total, limit, query, max_pages, collected, remaining, yielded,
                   reqs, short, ret,
                   statVars, watchVars, moreVars>>

\* a search that does not count the pages it has scanned
SearchIter_NoCount ==
    /\ op = "search" /\ ppc = "loop" /\ pages < max_pages
    /\ LET resp == Request("/direct_messages", total, CursorParam(before_id), ClampLimit(100))
           msgs == GetList(resp, "direct_messages")
       IN /\ reqs' = Append(reqs, [before_id |-> CursorParam(before_id), limit |-> ClampLimit(100)])
          /\ short' = (Len(msgs) < 100)
          /\ IF msgs = <<>>
             THEN /\ ppc' = "return"
                  /\ UNCHANGED <<results, before_id>>
             ELSE /\ results' = results \o SelectSeq(msgs, Matches)
                  /\ before_id' = NextCursor(msgs)
                  /\ ppc' = IF PageEnds(Len(msgs), 100) THEN "return" ELSE "loop"
    /\ UNCHANGED <<op, total, limit, query, max_pages, collected, remaining, yielded, ret, pages,
                   statVars, watchVars, moreVars>>

\* one iteration of `while pages < max_pages`
SearchIter ==
    /\ op = "search" /\ ppc = "loop" /\ pages < max_pages
    /\ LET resp == Request("/direct_messages", total, CursorParam(before_id), ClampLimit(100))
           msgs == GetList(resp, "direct_messages")
       IN /\ reqs' = Append(reqs, [before_id |-> CursorParam(before_id), limit |-> ClampLimit(100)])
          /\ short' = (Len(msgs) < 100)
          /\ IF msgs = <<>>
             THEN /\ ppc' = "return"
                  /\ UNCHANGED <<results, before_id, pages>>
             ELSE /\ results' = results \o SelectSeq(msgs, Matches)
                  /\ before_id' = NextCursor(msgs)
                  /\ pages' = pages + 1
                  /\ ppc' = IF PageEnds(Len(msgs), 100) THEN "return" ELSE "loop"
    /\ UNCHANGED <<op, total, limit, query, max_pages, collected, remaining, yielded, ret,
                   statVars, watchVars, moreVars>>

SearchFail ==
    /\ op = "search" /\ ppc = "loop" /\ pages < max_pages
    /\ reqs' = Append(reqs, [before_id |-> CursorParam(before_id), limit |-> ClampLimit(100)])
    /\ ppc' = "raised"
    /\ UNCHANGED <<op, total, limit, query, max_pages, collected, remaining, before_id,
                   pages, results, yielded, short, ret,
                   statVars, watchVars, moreVars>>

\* return {"direct_messages": results}
SearchReturn ==
    /\ op = "search"
    /\ ppc = "return" \/ (ppc = "loop" /\ pages >= max_pages)
    /\ ret' = results
    /\ ppc' = "done"
    /\ UNCHANGED <<op, total, limit, query, max_pages, collected, remaining, before_id,
                   pages, results, yielded, reqs, short,
                   statVars, watchVars, moreVars>>

\* ------------------------------------------------------------- aggregator
\* Values of created_at: absent, an integer, a numeric string, another string.
NoCreatedAt == [k |-> "none", v |-> 0]
IntStamp(t) == [k |-> "int", v |-> t]
StrStamp(t) == [k |-> "str", v |-> t]
BadStamp == [k |-> "bad", v |-> 0]
Stamps == {0, 3600, 3600 * 25, -1}
CreatedAts == {NoCreatedAt, BadStamp, StrStamp(7200)} \cup {IntStamp(t) : t \in Stamps}

NoName == ""
Senders == { [name |-> "ann", sender_id |-> "u1"], [name |-> NoName, sender_id |-> "u2"] }

\* the messages given to stats_from_messages; favorited_by is the list's length
StatMsgs ==
    { [name |-> p.name, sender_id |-> p.sender_id, created_at |-> c, favorited_by |-> f] :
        p \in Senders, c \in CreatedAts, f \in 0..1 }

\* m.get("name") or m.get("sender_id")
NameOf(m) == IF m.name # NoName THEN m.name ELSE m.sender_id

\* int(m.get("created_at") or 0): the integer, or a raised exception
ParseCreatedAt(c) ==
    CASE c.k = "none" -> [ok |-> TRUE, ts |-> 0]
      [] c.k = "int" -> [ok |-> TRUE, ts |-> c.v]
      [] c.k = "str" -> [ok |-> TRUE, ts |-> c.v]
      [] OTHER -> [ok |-> FALSE, ts |-> 0]

\* long inputs, with more senders and messages than the ten that are reported:
\* every message from a sender of its own, liked or not; and nobody liked,
\* the last two messages from the senders of the j-th and the k-th
LongInputs ==
    LET Msg(i, who, f) ==
            [name |-> IF who % 2 = 1 THEN "n" \o ToString(who) ELSE NoName,
             sender_id |-> "u" \o ToString(who),
             created_at |-> IntStamp(3600 * i), favorited_by |-> f]
    IN {[i \in 1..MaxLong |-> Msg(i, i, likes[i])] : likes \in [1..MaxLong -> 0..1]}
         \cup {[i \in 1..MaxLong |->
                    Msg(i, CASE i = MaxLong - 1 -> j [] i = MaxLong -> k [] OTHER -> i, 0)] :
                 j, k \in 1..MaxLong}

\* an histogram that forgets to wrap the hour into a day
Hour_NoWrap(ts) == ts \div 3600

\* hour = (ts // 3600) % 24
Hour(ts) == (ts \div 3600) % 24

\* a counter that moves a key to the end when it is counted again
Incr_MoveToEnd(counter, key) ==
    IF \E i \in 1..Len(counter) : counter[i][1] = key
    THEN LET i == CHOOSE i \in 1..Len(counter) : counter[i][1] = key
         IN Append(SelectSeq(counter, LAMBDA e : e[1] # key), <<key, counter[i][2] + 1>>)
    ELSE Append(counter, <<key, 1>>)

\* Counter: a sequence of <<key, count>> in insertion order; counter[key] += 1
Incr(counter, key) ==
    IF \E i \in 1..Len(counter) : counter[i][1] = key
    THEN [i \in 1..Len(counter) |->
            IF counter[i][1] = key THEN <<key, counter[i][2] + 1>> ELSE counter[i]]
    ELSE Append(counter, <<key, 1>>)

\* the body of `for m in messages`
StatsAdd(acc, m) ==
    LET p == ParseCreatedAt(m.created_at)
    IN [count_by_user |-> Incr(acc.count_by_user, NameOf(m)),
        likes_by_message |-> Append(acc.likes_by_message, <<m.favorited_by, m>>),
        hour_hist |-> IF p.ok THEN Incr(acc.hour_hist, Hour(p.ts)) ELSE acc.hour_hist]

RECURSIVE StatsLoop(_, _)
StatsLoop(msgs, n) ==
    IF n = 0
    THEN [count_by_user |-> <<>>, likes_by_message |-> <<>>, hour_hist |-> <<>>]
    ELSE StatsAdd(StatsLoop(msgs, n - 1), msgs[n])

\* an insertion that puts a later element before the earlier ones it ties with
RECURSIVE InsertDesc_Unstable(_, _, _)
InsertDesc_Unstable(x, s, k) ==
    IF s = <<>> THEN <<x>>
    ELSE IF Head(s)[k] > x[k] THEN <<Head(s)>> \o InsertDesc_Unstable(x, Tail(s), k)
    ELSE <<x>> \o s

\* a stable sort by descending component k: list.sort(reverse=True, key=...)
RECURSIVE InsertDesc(_, _, _)
InsertDesc(x, s, k) ==
    IF s = <<>> THEN <<x>>
    ELSE IF Head(s)[k] >= x[k] THEN <<Head(s)>> \o InsertDesc(x, Tail(s), k)
    ELSE <<x>> \o s

RECURSIVE SortDesc(_, _)
SortDesc(s, k) ==
    IF s = <<>> THEN <<>>
    ELSE InsertDesc(Last(s), SortDesc(SubSeq(s, 1, Len(s) - 1), k), k)

\* tuple order of (key, count) pairs
PairLess(a, b) == a[1] < b[1] \/ (a[1] = b[1] /\ a[2] < b[2])

RECURSIVE InsertAsc(_, _)
InsertAsc(x, s) ==
    IF s = <<>> THEN <<x>>
    ELSE IF PairLess(x, Head(s)) THEN <<x>> \o s
    ELSE <<Head(s)>> \o InsertAsc(x, Tail(s))

\* an histogram listed in the order in which the hours were first seen
Sorted_AsCounted(s) == s

\* sorted(hour_hist.items())
RECURSIVE Sorted(_)
Sorted(s) ==
    IF s = <<>> THEN <<>> ELSE InsertAsc(Last(s), Sorted(SubSeq(s, 1, Len(s) - 1)))

\* stats_from_messages(messages)
StatsFromMessages(msgs) ==
    LET acc == StatsLoop(msgs, Len(msgs))
    IN [top_posters |-> Prefix(SortDesc(acc.count_by_user, 2), 10),
        most_liked |-> Prefix(SortDesc(acc.likes_by_message, 1), 10),
        hour_hist |-> Sorted(acc.hour_hist)]

NoStats == [top_posters |-> <<>>, most_liked |-> <<>>, hour_hist |-> <<>>]

StatsCall ==
    /\ spc = "call"
    /\ stats' = StatsFromMessages(stat_messages)
    /\ spc' = "done"
    /\ UNCHANGED <<stat_messages, pageVars, watchVars, moreVars>>

InitStatsCall ==
    /\ stat_messages \in SeqsUpTo(StatMsgs, MaxMsgs) \cup LongInputs
    /\ spc = "call"
    /\ stats = NoStats

StatsIdle == stat_messages = <<>> /\ spc = "idle" /\ stats = NoStats

\* ------------------------------------------------------------ push client
\* JSON values.  Null is null or an absent key; "" and "{}" are falsy values
\* that are not None.
Null == "null"
Truthy(v) == v \notin {Null, "", "{}"}

\* the ext member of an envelope: absent, not an object, or an object
NoExt == [t |-> "none", data |-> Null]
ScalarExt == [t |-> "scalar", data |-> Null]
ExtObj(d) == [t |-> "obj", data |-> d]

\* an element of a frame: an object {channel, clientId?, data?, ext?} or a scalar
Obj(ch, cid, d, x) == [t |-> "obj", channel |-> ch, clientId |-> cid, data |-> d, ext |-> x]
ScalarElt == [t |-> "scalar", channel |-> Null, clientId |-> Null, data |-> Null, ext |-> NoExt]

\* a text frame: unparsable ("bad"), a list, a single object, or a scalar
NoFrame == [t |-> "none", v |-> <<>>]
BadFrame == [t |-> "bad", v |-> <<>>]
ScalarFrame == [t |-> "scalar", v |-> <<>>]
ListFrame(s) == [t |-> "list", v |-> s]
ObjFrame(e) == [t |-> "obj", v |-> <<e>>]

\* the replies to the handshake the server may send
HsElts ==
    {Obj(ch, cid, Null, NoExt) : ch \in {"/meta/handshake", "/meta/connect"},
                                 cid \in {Null, "", "abc", "xyz"}}
HandshakeReplies ==
    {ListFrame(s) : s \in SeqsUpTo(HsElts \cup {ScalarElt}, MaxBatch)}
        \cup {ObjFrame(e) : e \in HsElts} \cup {ScalarFrame, BadFrame}

\* the frames the server may send after a subscribe request
AckFrames ==
    {ObjFrame(Obj("/meta/subscribe", "abc", Null, NoExt)),
     ObjFrame(Obj("/user/1", Null, "like", NoExt)), BadFrame}

\* the frames the server may send while the client listens (a late reply to a
\* subscribe request among them)
EnvKinds ==
    {Obj("/user/1", Null, d, x) :
        d \in {Null, "{}", "like"},
        x \in {NoExt, ScalarExt, ExtObj(Null), ExtObj("{}"), ExtObj("msg")}}
CoreKinds ==
    {ScalarElt, Obj("/meta/connect", Null, Null, NoExt),
     Obj("/user/1", Null, "like", NoExt), Obj("/user/1", Null, Null, ExtObj("msg"))}
StreamFrames ==
    {ObjFrame(e) : e \in EnvKinds \cup {Obj("/meta/subscribe", "abc", Null, NoExt)}}
        \cup {ListFrame(<<e>>) : e \in EnvKinds}
        \cup {ListFrame(s) : s \in SeqsUpTo(CoreKinds, MaxBatch)}
        \cup {ScalarFrame, BadFrame}

ChannelNames == {"/user/1", "/group/7"}

\* the handshake and subscribe requests
HandshakeMsg == [channel |-> "/meta/handshake", clientId |-> Null, subscription |-> Null]
SubscribeMsg(cid, ch) == [channel |-> "/meta/subscribe", clientId |-> cid, subscription |-> ch]

\* the loop over a list reply: the first dict on /meta/handshake with a clientId
RECURSIVE ScanHandshake(_)
ScanHandshake(items) ==
    IF items = <<>> THEN Null
    ELSE LET item == Head(items)
         IN IF item.t = "obj" /\ item.channel = "/meta/handshake" /\ Truthy(item.clientId)
            THEN item.clientId
            ELSE ScanHandshake(Tail(items))

\* a scan that takes the clientId of the first entry that has one
RECURSIVE ScanAnyChannel(_)
ScanAnyChannel(items) ==
    IF items = <<>> THEN Null
    ELSE IF Head(items).t = "obj" /\ Truthy(Head(items).clientId)
         THEN Head(items).clientId
         ELSE ScanAnyChannel(Tail(items))

ExtractClientId_AnyChannel(r) ==
    IF r.t = "list" THEN ScanAnyChannel(r.v) ELSE r.v[1].clientId

\* client_id of a parsed reply that is a list or a dict
ExtractClientId(r) ==
    IF r.t = "list" THEN ScanHandshake(r.v) ELSE r.v[1].clientId

\* payload of one dict envelope, Null when it yields nothing
Payload(env) ==
    IF env.data = Null /\ env.ext.t = "obj" /\ Truthy(env.ext.data)
    THEN env.ext.data
    ELSE env.data

\* a session that leaves the `async with` block without closing the websocket
ExitWith_Leak(e) ==
    /\ wpc' = "done" /\ werr' = e
    /\ UNCHANGED <<conn, closes>>

\* leaving the `async with websockets.connect(...)` block with exception e
ExitWith(e) ==
    /\ wpc' = "done" /\ werr' = e
    /\ conn' = "closed" /\ closes' = closes + 1

\* websockets.connect succeeds
Connect ==
    /\ wpc = "start"
    /\ conn' = "open" /\ wpc' = "hs_send"
    /\ UNCHANGED <<channels, closes, sent, wire, nframes, hs_resp, client_id, ch_i,
                   envelopes, delivered, werr,
                   pageVars, statVars, moreVars>>

\* websockets.connect raises, or the consumer cancels while it is awaited
ConnectFail ==
    /\ wpc = "start"
    /\ \E e \in {"TransportError", "CancelledError"} : werr' = e
    /\ wpc' = "done"
    /\ UNCHANGED <<channels, conn, closes, sent, wire, nframes, hs_resp, client_id, ch_i,
                   envelopes, delivered,
                   pageVars, statVars, moreVars>>

\* await ws.send(handshake)
SendHandshake ==
    /\ wpc = "hs_send"
    /\ sent' = Append(sent, HandshakeMsg)
    /\ wpc' = "hs_recv"
    /\ UNCHANGED <<channels, conn, closes, wire, nframes, hs_resp, client_id, ch_i,
                   envelopes, delivered, werr,
                   pageVars, statVars, moreVars>>

\* the server sends a frame while the client awaits ws.recv()
ServerSend ==
    /\ conn = "open" /\ wire = NoFrame /\ nframes < MaxFrames
    /\ wpc \in {"hs_recv", "sub_recv", "listen"}
    /\ wire' \in CASE wpc = "hs_recv" -> HandshakeReplies
                   [] wpc = "sub_recv" -> AckFrames
                   [] OTHER -> StreamFrames
    /\ nframes' = nframes + 1
    /\ UNCHANGED <<channels, wpc, conn, closes, sent, hs_resp, client_id, ch_i,
                   envelopes, delivered, werr,
                   pageVars, statVars, moreVars>>

\* a handler that subscribes to the first channel only
AfterSubscribe_Early(i) == IF i > Min(1, Len(channels)) THEN "listen" ELSE "sub_send"

\* where the generator goes once the subscribe loop is at position i
AfterSubscribe(i) == IF i > Len(channels) THEN "listen" ELSE "sub_send"

\* resp_raw = await ws.recv(); hs_resp = json.loads(resp_raw); client_id = ...
RecvHandshake ==
    /\ wpc = "hs_recv" /\ wire # NoFrame
    /\ wire' = NoFrame
    /\ IF wire.t = "bad"
       THEN /\ ExitWith("JSONDecodeError")
            /\ UNCHANGED <<hs_resp, client_id, ch_i>>
       ELSE IF wire.t = "scalar"
       THEN /\ ExitWith("AttributeError")
            /\ hs_resp' = wire
            /\ UNCHANGED <<client_id, ch_i>>
       ELSE /\ client_id' = ExtractClientId(wire)
            /\ ch_i' = 1
            /\ wpc' = AfterSubscribe(1)
            /\ hs_resp' = IF AfterSubscribe(1) = "listen" THEN NoFrame ELSE wire
            /\ UNCHANGED <<conn, closes, werr>>
    /\ UNCHANGED <<channels, sent, nframes, envelopes, delivered,
                   pageVars, statVars, moreVars>>

\* a handler that sends the next subscribe request without awaiting a reply
SendSubscribe_NoAck ==
    /\ wpc = "sub_send"
    /\ sent' = Append(sent, SubscribeMsg(client_id, channels[ch_i]))
    /\ ch_i' = ch_i + 1
    /\ wpc' = AfterSubscribe(ch_i + 1)
    /\ hs_resp' = IF AfterSubscribe(ch_i + 1) = "listen" THEN NoFrame ELSE hs_resp
    /\ UNCHANGED <<channels, conn, closes, wire, nframes, client_id,
                   envelopes, delivered, werr,
                   pageVars, statVars, moreVars>>

\* await ws.send(subscribe) for channels[ch_i]
SendSubscribe ==
    /\ wpc = "sub_send"
    /\ sent' = Append(sent, SubscribeMsg(client_id, channels[ch_i]))
    /\ wpc' = "sub_recv"
    /\ UNCHANGED <<channels, conn, closes, wire, nframes, hs_resp, client_id, ch_i,
                   envelopes, delivered, werr,
                   pageVars, statVars, moreVars>>

\* a handler that hands the frame received after a subscribe request to the
\* consumer when it carries data
RecvAck_Deliver ==
    /\ wpc = "sub_recv" /\ wire # NoFrame
    /\ wire' = NoFrame
    /\ ch_i' = ch_i + 1
    /\ wpc' = AfterSubscribe(ch_i + 1)
    /\ hs_resp' = IF AfterSubscribe(ch_i + 1) = "listen" THEN NoFrame ELSE hs_resp
    /\ delivered' = IF wire.t = "obj" /\ Payload(wire.v[1]) # Null
                    THEN Append(delivered, Payload(wire.v[1]))
                    ELSE delivered
    /\ UNCHANGED <<channels, conn, closes, sent, nframes, client_id, envelopes, werr,
                   pageVars, statVars, moreVars>>

\* await ws.recv()  # ignore ack
RecvAck ==
    /\ wpc = "sub_recv" /\ wire # NoFrame
    /\ wire' = NoFrame
    /\ ch_i' = ch_i + 1
    /\ wpc' = AfterSubscribe(ch_i + 1)
    /\ hs_resp' = IF AfterSubscribe(ch_i + 1) = "listen" THEN NoFrame ELSE hs_resp
    /\ UNCHANGED <<channels, conn, closes, sent, nframes, client_id, envelopes,
                   delivered, werr,
                   pageVars, statVars, moreVars>>

\* a generator that awaits the next frame after the first envelope of a frame
AfterEnvelope_Prefetch(es) == "listen"

\* where the generator goes with the envelopes es left in the current frame
AfterEnvelope(es) == IF es = <<>> THEN "listen" ELSE "demux"

\* raw = await ws.recv(); data = json.loads(raw); envelopes = ...
RecvFrame ==
    /\ wpc = "listen" /\ wire # NoFrame
    /\ wire' = NoFrame
    /\ IF wire.t = "bad"
       THEN /\ ExitWith("JSONDecodeError")
            /\ UNCHANGED envelopes
       ELSE /\ envelopes' = IF wire.t = "scalar" THEN <<ScalarElt>> ELSE wire.v
            /\ wpc' = AfterEnvelope(envelopes')
            /\ UNCHANGED <<conn, closes, werr>>
    /\ UNCHANGED <<channels, sent, nframes, hs_resp, client_id, ch_i, delivered,
                   pageVars, statVars, moreVars>>

\* a loop that takes the envelopes of a frame last first
Demux_LastFirst ==
    /\ wpc = "demux"
    /\ LET env == Last(envelopes)
       IN /\ envelopes' = SubSeq(envelopes, 1, Len(envelopes) - 1)
          /\ IF env.t # "obj"
             THEN /\ wpc' = AfterEnvelope(envelopes')
                  /\ UNCHANGED delivered
             ELSE IF Payload(env) # Null
             THEN /\ delivered' = Append(delivered, Payload(env))
                  /\ wpc' = "yield"
             ELSE /\ wpc' = AfterEnvelope(envelopes')
                  /\ UNCHANGED delivered
    /\ UNCHANGED <<channels, conn, closes, sent, wire, nframes, hs_resp, client_id, ch_i, werr,
                   pageVars, statVars, moreVars>>

\* one step of `for env in envelopes`, up to the yield
Demux ==
    /\ wpc = "demux"
    /\ LET env == Head(envelopes)
       IN /\ envelopes' = Tail(envelopes)
          /\ IF env.t # "obj"
             THEN /\ wpc' = AfterEnvelope(envelopes')
                  /\ UNCHANGED delivered
             ELSE IF Payload(env) # Null
             THEN /\ delivered' = Append(delivered, Payload(env))
                  /\ wpc' = "yield"
             ELSE /\ wpc' = AfterEnvelope(envelopes')
                  /\ UNCHANGED delivered
    /\ UNCHANGED <<channels, conn, closes, sent, wire, nframes, hs_resp, client_id, ch_i, werr,
                   pageVars, statVars, moreVars>>

\* the consumer asks for the next event: the generator resumes after the yield
Resume ==
    /\ wpc = "yield"
    /\ wpc' = AfterEnvelope(envelopes)
    /\ UNCHANGED <<channels, conn, closes, sent, wire, nframes, hs_resp, client_id, ch_i,
                   envelopes, delivered, werr,
                   pageVars, statVars, moreVars>>

\* a connector that reconnects after a dropped connection
TransportFail_Reconnect ==
    /\ wpc \in {"hs_send", "hs_recv", "sub_send", "sub_recv", "listen"}
    /\ werr' = "TransportError" /\ conn' = "closed" /\ closes' = closes + 1
    /\ wpc' = "start"
    /\ UNCHANGED <<channels, sent, wire, nframes, hs_resp, client_id, ch_i, envelopes, delivered,
                   pageVars, statVars, moreVars>>

\* ws.send or ws.recv raises: the connection dropped
TransportFail ==
    /\ wpc \in {"hs_send", "hs_recv", "sub_send", "sub_recv", "listen"}
    /\ ExitWith("TransportError")
    /\ UNCHANGED <<channels, sent, wire, nframes, hs_resp, client_id, ch_i, envelopes, delivered,
                   pageVars, statVars, moreVars>>

\* a generator that sends an unsubscribe request when it is cancelled
Cancel_Unsubscribe ==
    /\ \/ /\ wpc \in {"hs_send", "hs_recv", "sub_send", "sub_recv", "listen"}
          /\ ExitWith("CancelledError")
       \/ /\ wpc = "yield"
          /\ ExitWith("GeneratorExit")
    /\ sent' = Append(sent, [channel |-> "/meta/unsubscribe", clientId |-> client_id,
                             subscription |-> Null])
    /\ UNCHANGED <<channels, wire, nframes, hs_resp, client_id, ch_i, envelopes, delivered,
                   pageVars, statVars, moreVars>>

\* the consumer cancels: CancelledError at an await, GeneratorExit at the yield
Cancel ==
    /\ \/ /\ wpc \in {"hs_send", "hs_recv", "sub_send", "sub_recv", "listen"}
          /\ ExitWith("CancelledError")
       \/ /\ wpc = "yield"
          /\ ExitWith("GeneratorExit")
    /\ UNCHANGED <<channels, sent, wire, nframes, hs_resp, client_id, ch_i, envelopes, delivered,
                   pageVars, statVars, moreVars>>

InitWatchCall ==
    /\ channels \in SeqsUpTo(ChannelNames, MaxChannels)
    /\ wpc = "start" /\ conn = "none" /\ closes = 0
    /\ sent = <<>> /\ wire = NoFrame /\ nframes = 0
    /\ hs_resp = NoFrame /\ client_id = Null /\ ch_i = 0
    /\ envelopes = <<>> /\ delivered = <<>> /\ werr = "none"

WatchIdle ==
    /\ channels = <<>>
    /\ wpc = "idle" /\ conn = "none" /\ closes = 0
    /\ sent = <<>> /\ wire = NoFrame /\ nframes = 0
    /\ hs_resp = NoFrame /\ client_id = Null /\ ch_i = 0
    /\ envelopes = <<>> /\ delivered = <<>> /\ werr = "none"

\* ------------------------------------------------------------- bulk likes
NoSummary == [ok |-> 0, failed |-> 0, errors |-> <<>>]

\* the items given to bulk_like / bulk_unlike: dicts whose ids may be absent
\* (Null) or empty, and a value that is not a dict
BulkItem(c, m) == [t |-> "obj", conversation_id |-> c, message_id |-> m]
BulkItems ==
    {BulkItem(c, m) : c \in {Null, "", "g1"}, m \in {Null, "m1", "m2"}}
        \cup {[t |-> "scalar", conversation_id |-> Null, message_id |-> Null]}

\* item.get(key) or ""
OrBlank(v) == IF Truthy(v) THEN v ELSE ""

\* POST /messages/{conv}/{mid}/like or /unlike
LikePost(o, conv, mid) == [action |-> o, conversation_id |-> conv, message_id |-> mid]

\* errors.append({"item": item, "error": str(e)})
AppendError(errs, item, e) == Append(errs, [item |-> item, error |-> e])

\* bulk_like / bulk_unlike (bulk_op tells which): ok = 0; errors = []
BulkEnter ==
    /\ bpc = "call"
    /\ ok' = 0 /\ errors' = <<>> /\ bi' = 1 /\ bpc' = "loop"
    /\ UNCHANGED <<bulk_op, ids, posts, tried, summary,
                   pageVars, statVars, watchVars, callVars, httpVars, groupVars>>

\* a helper that gives up at the first item that fails
BulkStep_StopAtFailure ==
    /\ bpc = "loop" /\ bi <= Len(ids)
    /\ LET item == ids[bi]
       IN IF item.t # "obj"
          THEN /\ errors' = AppendError(errors, item, "AttributeError")
               /\ tried' = Append(tried, "missing")
               /\ bi' = Len(ids) + 1
               /\ UNCHANGED <<ok, posts>>
          ELSE LET conv == OrBlank(item.conversation_id)
                   mid == OrBlank(item.message_id)
               IN IF conv = "" \/ mid = ""
                  THEN /\ errors' = AppendError(errors, item, "ValueError: missing ids")
                       /\ tried' = Append(tried, "missing")
                       /\ bi' = Len(ids) + 1
                       /\ UNCHANGED <<ok, posts>>
                  ELSE /\ posts' = Append(posts, LikePost(bulk_op, conv, mid))
                       /\ \E r \in {"ok", "GroupMeAPIError", "AttributeError"} :
                             IF r = "ok"
                             THEN /\ ok' = ok + 1
                                  /\ tried' = Append(tried, "ok")
                                  /\ bi' = bi + 1
                                  /\ UNCHANGED errors
                             ELSE /\ errors' = AppendError(errors, item, r)
                                  /\ tried' = Append(tried, "failed")
                                  /\ bi' = Len(ids) + 1
                                  /\ UNCHANGED ok
    /\ UNCHANGED <<bulk_op, ids, bpc, summary,
                   pageVars, statVars, watchVars, callVars, httpVars, groupVars>>

\* one iteration of `for item in ids`: the try block and its except clause;
\* like_message / unlike_message returns, or an exception of _request leaves it
BulkStep ==
    /\ bpc = "loop" /\ bi <= Len(ids)
    /\ LET item == ids[bi]
       IN IF item.t # "obj"
          THEN /\ errors' = AppendError(errors, item, "AttributeError")
               /\ tried' = Append(tried, "missing")
               /\ UNCHANGED <<ok, posts>>
          ELSE LET conv == OrBlank(item.conversation_id)
                   mid == OrBlank(item.message_id)
               IN IF conv = "" \/ mid = ""
                  THEN /\ errors' = AppendError(errors, item, "ValueError: missing ids")
                       /\ tried' = Append(tried, "missing")
                       /\ UNCHANGED <<ok, posts>>
                  ELSE /\ posts' = Append(posts, LikePost(bulk_op, conv, mid))
                       /\ \E r \in {"ok", "GroupMeAPIError", "AttributeError"} :
                             IF r = "ok"
                             THEN /\ ok' = ok + 1
                                  /\ tried' = Append(tried, "ok")
                                  /\ UNCHANGED errors
                             ELSE /\ errors' = AppendError(errors, item, r)
                                  /\ tried' = Append(tried, "failed")
                                  /\ UNCHANGED ok
    /\ bi' = bi + 1
    /\ UNCHANGED <<bulk_op, ids, bpc, summary,
                   pageVars, statVars, watchVars, callVars, httpVars, groupVars>>

\* return {"ok": ok, "failed": len(errors), "errors": errors}
BulkReturn ==
    /\ bpc = "loop" /\ bi > Len(ids)
    /\ summary' = [ok |-> ok, failed |-> Len(errors), errors |-> errors]
    /\ bpc' = "done"
    /\ UNCHANGED <<bulk_op, ids, bi, ok, errors, posts, tried,
                   pageVars, statVars, watchVars, callVars, httpVars, groupVars>>


\* --------------------------------------------------------------- _request
\* url = f"{API_BASE}{path}"
API_BASE == "https://api.groupme.com/v3"
Url(p) == API_BASE \o p

\* A response body: text that is not JSON, a JSON object {"meta"?, "response"?}
\* or a JSON value of another type.  meta is absent, null, or an object that
\* carries "errors", "message" or neither.
NoBody == [valid |-> FALSE, t |-> "none", meta |-> "absent", response |-> Null]
InvalidBody == [valid |-> FALSE, t |-> "text", meta |-> "absent", response |-> Null]
DictBody(meta, r) == [valid |-> TRUE, t |-> "dict", meta |-> meta, response |-> r]
OtherBody(t) == [valid |-> TRUE, t |-> t, meta |-> "absent", response |-> Null]

\* what self._session.request gives: a requests.RequestException, or a reply
\* with a status code and a body
NoResponse == [net |-> "none", status |-> 0, body |-> NoBody]
NetworkError == [net |-> "error", status |-> 0, body |-> NoBody]
Reply(st, b) == [net |-> "ok", status |-> st, body |-> b]
Responses ==
    {Reply(st, b) :
        st \in {200, 201, 304, 400, 401, 404, 500},
        b \in {InvalidBody}
                 \cup {DictBody(meta, r) :
                          meta \in {"absent", "null", "errors", "message", "empty"},
                          r \in {Null, "data"}}
                 \cup {OtherBody(t) : t \in {"list", "null", "str"}}}
        \cup {NetworkError}

\* requests.Response.ok
Ok(st) == ~(400 <= st /\ st < 600)

\* how a call ends: a value returned, or an exception raised
NoResult == [kind |-> "none", status_code |-> 0, url |-> "", value |-> NoBody]
Returned(v) == [kind |-> "return", status_code |-> 0, url |-> "", value |-> v]
Raised(e) == [kind |-> e, status_code |-> 0, url |-> "", value |-> NoBody]
GroupMeAPIError(code, u) == [kind |-> "GroupMeAPIError", status_code |-> code, url |-> u,
                             value |-> NoBody]

\* `if not resp.ok:` the error message is looked up in the body, then
\* GroupMeAPIError is raised
ErrorReply(r, u) ==
    IF ~r.body.valid THEN GroupMeAPIError(r.status, u)
    ELSE IF r.body.t # "dict" \/ r.body.meta = "null" THEN Raised("AttributeError")
    ELSE GroupMeAPIError(r.status, u)

\* the end of _request for an OK reply
ParseReply(r, rw, u) ==
    IF rw
    THEN IF r.body.valid THEN Returned(r.body) ELSE Raised("ValueError")
    ELSE IF ~r.body.valid THEN GroupMeAPIError(r.status, u)
    ELSE IF r.body.t # "dict" THEN Raised("AttributeError")
    ELSE Returned(DictBody("absent", r.body.response))

\* resp = self._session.request(...), or the network error it raises
SendRequest ==
    /\ rpc = "call"
    /\ \E r \in Responses :
          /\ http_resp' = r
          /\ IF r.net = "error"
             THEN /\ result' = GroupMeAPIError(-1, Url(req_path))
                  /\ rpc' = "done"
             ELSE /\ rpc' = "status"
                  /\ UNCHANGED result
    /\ UNCHANGED <<raw, req_path,
                   pageVars, statVars, watchVars, callVars, bulkVars, groupVars>>

\* if not resp.ok: ... raise GroupMeAPIError(resp.status_code, ...)
CheckStatus ==
    /\ rpc = "status"
    /\ IF Ok(http_resp.status)
       THEN /\ rpc' = "parse"
            /\ UNCHANGED result
       ELSE /\ result' = ErrorReply(http_resp, Url(req_path))
            /\ rpc' = "done"
    /\ UNCHANGED <<raw, req_path, http_resp,
                   pageVars, statVars, watchVars, callVars, bulkVars, groupVars>>

\* if raw: return resp.json() ... return data.get("response")
ParseBody ==
    /\ rpc = "parse"
    /\ result' = ParseReply(http_resp, raw, Url(req_path))
    /\ rpc' = "done"
    /\ UNCHANGED <<raw, req_path, http_resp,
                   pageVars, statVars, watchVars, callVars, bulkVars, groupVars>>


\* --------------------------------------------------------- list_all_groups
\* The user's groups are numbered 1..ngroups.  GET /groups?page=p returns the
\* p-th run of PerPage groups, the empty list beyond the last group.
PerPage == 10
GroupsPage(n, pg) ==
    LET k == Max(0, Min(PerPage, n - (pg - 1) * PerPage))
    IN [i \in 1..k |-> (pg - 1) * PerPage + i]

\* page = 1; all_groups = []
ListAllGroupsEnter ==
    /\ gpc = "call"
    /\ page' = 1 /\ all_groups' = <<>> /\ gpc' = "loop"
    /\ UNCHANGED <<ngroups, page_reqs, groups_ret,
                   pageVars, statVars, watchVars, callVars, bulkVars, httpVars>>

\* a traversal that asks for the same page again
ListAllGroupsIter_SamePage ==
    /\ gpc = "loop"
    /\ page_reqs' = Append(page_reqs, page)
    /\ LET groups == GroupsPage(ngroups, page)
       IN IF groups = <<>>
          THEN /\ gpc' = "return"
               /\ UNCHANGED all_groups
          ELSE /\ all_groups' = all_groups \o groups
               /\ UNCHANGED gpc
    /\ UNCHANGED <<ngroups, groups_ret, page,
                   pageVars, statVars, watchVars, callVars, bulkVars, httpVars>>

\* one iteration of `while True`
ListAllGroupsIter ==
    /\ gpc = "loop"
    /\ page_reqs' = Append(page_reqs, page)
    /\ LET groups == GroupsPage(ngroups, page)
       IN IF groups = <<>>
          THEN /\ gpc' = "return"
               /\ UNCHANGED <<all_groups, page>>
          ELSE /\ all_groups' = all_groups \o groups
               /\ page' = page + 1
               /\ UNCHANGED gpc
    /\ UNCHANGED <<ngroups, groups_ret,
                   pageVars, statVars, watchVars, callVars, bulkVars, httpVars>>

\* self.list_groups(page=page) raises GroupMeAPIError: it propagates
ListAllGroupsFail ==
    /\ gpc = "loop"
    /\ page_reqs' = Append(page_reqs, page)
    /\ gpc' = "raised"
    /\ UNCHANGED <<ngroups, page, all_groups, groups_ret,
                   pageVars, statVars, watchVars, callVars, bulkVars, httpVars>>

\* return all_groups
ListAllGroupsReturn ==
    /\ gpc = "return"
    /\ groups_ret' = all_groups
    /\ gpc' = "done"
    /\ UNCHANGED <<ngroups, page, all_groups, page_reqs,
                   pageVars, statVars, watchVars, callVars, bulkVars, httpVars>>

\* ------------------------------------------------ specifications: pagination
InitCall(ops) ==
    /\ op \in ops
    /\ total \in IF op = "search" THEN (0..MaxItems) \cup LongChats ELSE 0..MaxItems
    /\ limit \in IF op \in {"latest", "direct"} THEN (-1)..MaxLimit ELSE {0}
    /\ query \in IF op = "search" THEN Queries ELSE {<<>>}
    /\ max_pages \in IF op = "search" THEN MaxPagesArgs ELSE {0}
    /\ ppc = "call"
    /\ collected = <<>> /\ remaining = 0 /\ before_id = NoCursor
    /\ pages = 0 /\ results = <<>> /\ yielded = <<>>
    /\ reqs = <<>> /\ short = FALSE /\ ret = <<>>

PageIdle ==
    /\ op = "none" /\ total = 0 /\ limit = 0 /\ query = <<>> /\ max_pages = 0
    /\ ppc = "idle"
    /\ collected = <<>> /\ remaining = 0 /\ before_id = NoCursor
    /\ pages = 0 /\ results = <<>> /\ yielded = <<>>
    /\ reqs = <<>> /\ short = FALSE /\ ret = <<>>

BulkIdle ==
    /\ bulk_op = "none" /\ ids = <<>> /\ bpc = "idle" /\ bi = 0 /\ ok = 0
    /\ errors = <<>> /\ posts = <<>> /\ tried = <<>> /\ summary = NoSummary

HttpIdle ==
    /\ raw = FALSE /\ req_path = "" /\ rpc = "idle" /\ http_resp = NoResponse
    /\ result = NoResult

GroupsIdle ==
    /\ ngroups = 0 /\ gpc = "idle" /\ page = 0 /\ all_groups = <<>>
    /\ page_reqs = <<>> /\ groups_ret = <<>>

\* no call of bulk_like/bulk_unlike, _request or list_all_groups in progress
MoreIdle == BulkIdle /\ HttpIdle /\ GroupsIdle

InitFetch == InitCall({"latest", "direct"}) /\ StatsIdle /\ WatchIdle /\ CallOnce /\ MoreIdle
InitExport == InitCall({"export"}) /\ StatsIdle /\ WatchIdle /\ CallOnce /\ MoreIdle
InitSearch == InitCall({"search"}) /\ StatsIdle /\ WatchIdle /\ CallOnce /\ MoreIdle
InitStats == InitStatsCall /\ PageIdle /\ WatchIdle /\ CallIdle /\ MoreIdle
InitWatch == InitWatchCall /\ PageIdle /\ StatsIdle /\ CallIdle /\ MoreIdle

NextFetch ==
    \/ GetGroupMessagesLatestEnter \/ GetGroupMessagesLatestIter
    \/ GetGroupMessagesLatestFail \/ GetGroupMessagesLatestReturn
    \/ GetDirectMessagesEnter \/ GetDirectMessagesIter
    \/ GetDirectMessagesFail \/ GetDirectMessagesReturn

NextExport == ExportEnter \/ ExportIter \/ ExportFail

NextSearch == SearchEnter \/ SearchIter \/ SearchFail \/ SearchReturn

NextStats == StatsCall

NextWatch ==
    \/ Connect \/ ConnectFail \/ SendHandshake \/ ServerSend \/ RecvHandshake
    \/ SendSubscribe \/ RecvAck \/ RecvFrame \/ Demux \/ Resume
    \/ TransportFail \/ Cancel

\* a bounded fetch against a server that returns pages of any size
InitFetchAny == InitFetch /\ total \in {0, 1, 100, MaxItems}

NextFetchAny ==
    \/ GetGroupMessagesLatestEnter \/ GetDirectMessagesEnter
    \/ BoundedIterAnyServer
    \/ GetGroupMessagesLatestReturn \/ GetDirectMessagesReturn

\* two pagination calls at once: any of the four paginators, and a second
\* bounded fetch on a resource of its own
InitInterleave ==
    /\ InitCall({"latest", "direct", "export", "search"})
    /\ total \in {0, 37, 100, MaxItems}
    /\ limit \in {-1, 0, 1, 100, 150, MaxLimit}
    /\ StatsIdle /\ WatchIdle /\ MoreIdle
    /\ ncall = 1 /\ first = NoFirst
    /\ \E t \in {0, 150}, l \in {0, 120, MaxLimit} :
          other = [NoOther EXCEPT !.pc = "call", !.total = t, !.limit = l]

NextInterleave ==
    \/ GetGroupMessagesLatestEnter \/ GetGroupMessagesLatestIter \/ GetGroupMessagesLatestReturn
    \/ GetDirectMessagesEnter \/ GetDirectMessagesIter \/ GetDirectMessagesReturn
    \/ ExportEnter \/ ExportIter
    \/ SearchEnter \/ SearchIter \/ SearchReturn
    \/ OtherEnter \/ OtherIter \/ OtherReturn

InitPaginate ==
    InitCall({"latest", "direct", "export", "search"}) /\ StatsIdle /\ WatchIdle
        /\ CallOnce /\ MoreIdle

InitBulk ==
    /\ bulk_op \in {"like", "unlike"}
    /\ ids \in SeqsUpTo(BulkItems, MaxIds)
    /\ bpc = "call" /\ bi = 0 /\ ok = 0
    /\ errors = <<>> /\ posts = <<>> /\ tried = <<>> /\ summary = NoSummary
    /\ PageIdle /\ StatsIdle /\ WatchIdle /\ CallIdle /\ HttpIdle /\ GroupsIdle

NextBulk == BulkEnter \/ BulkStep \/ BulkReturn

InitRequest ==
    /\ raw \in BOOLEAN
    /\ req_path \in {"/groups", "/users/me", "/messages/g1/m1/like"}
    /\ rpc = "call" /\ http_resp = NoResponse /\ result = NoResult
    /\ PageIdle /\ StatsIdle /\ WatchIdle /\ CallIdle /\ BulkIdle /\ GroupsIdle

NextRequest == SendRequest \/ CheckStatus \/ ParseBody

InitGroups ==
    /\ ngroups \in 0..MaxGroups
    /\ gpc = "call" /\ page = 0 /\ all_groups = <<>>
    /\ page_reqs = <<>> /\ groups_ret = <<>>
    /\ PageIdle /\ StatsIdle /\ WatchIdle /\ CallIdle /\ BulkIdle /\ HttpIdle

NextGroups ==
    ListAllGroupsEnter \/ ListAllGroupsIter \/ ListAllGroupsFail \/ ListAllGroupsReturn

NextPaginate ==
    \/ GetGroupMessagesLatestEnter \/ GetGroupMessagesLatestIter
    \/ GetGroupMessagesLatestFail \/ GetGroupMessagesLatestReturn
    \/ GetDirectMessagesEnter \/ GetDirectMessagesIter
    \/ GetDirectMessagesFail \/ GetDirectMessagesReturn
    \/ ExportEnter \/ ExportIter \/ ExportFail
    \/ SearchEnter \/ SearchIter \/ SearchFail \/ SearchReturn
    \/ CallAgain

SpecFetch == InitFetch /\ [][NextFetch]_vars
SpecExport == InitExport /\ [][NextExport]_vars
SpecSearch == InitSearch /\ [][NextSearch]_vars
SpecStats == InitStats /\ [][NextStats]_vars
SpecWatch == InitWatch /\ [][NextWatch]_vars

SpecFetchAny == InitFetchAny /\ [][NextFetchAny]_vars

SpecInterleave == InitInterleave /\ [][NextInterleave]_vars

SpecPaginate == InitPaginate /\ [][NextPaginate]_vars
SpecBulk == InitBulk /\ [][NextBulk]_vars
SpecRequest == InitRequest /\ [][NextRequest]_vars

\* a call of list_all_groups runs on: the loop takes its next step whenever it
\* has one
SpecGroupsLive == InitGroups /\ [][NextGroups]_vars /\ WF_vars(NextGroups)

\* a call of search_direct_messages runs on: the loop takes its next step
\* whenever it has one
SpecSearchLive == InitSearch /\ [][NextSearch]_vars /\ WF_vars(NextSearch)

\* ---------------------------------------------------------------- claims
IsFetch == op \in {"latest", "direct"}

\* the n newest items of a resource of m items, newest first
Newest(m, n) == [i \in 1..n |-> m + 1 - i]

\* C1: a bounded fetch with limit N >= 1 on a resource of M >= N items returns
\* exactly N items, newest first (strictly descending identifiers, starting at
\* the newest item), no identifier twice.
C1_BoundedFetchExact ==
    (IsFetch /\ ppc = "done" /\ limit >= 1 /\ total >= limit) =>
        /\ Len(ret) = limit
        /\ ret = Newest(total, limit)
        /\ \A i \in 1..(Len(ret) - 1) : ret[i] > ret[i + 1]
        /\ Cardinality({ret[i] : i \in 1..Len(ret)}) = Len(ret)

\* a bounded fetch over more than one page has returned
C1_Witness ==
    IsFetch /\ ppc = "done" /\ limit > 100 /\ total > limit /\ Len(reqs) = 2
        /\ Len(ret) = limit

\* C2: a bounded fetch with limit N > M returns exactly the M items, and the
\* first empty or short page ends the loop: no page is requested after it.
C2_BoundedFetchExhausts ==
    (IsFetch /\ limit > total) =>
        /\ short => ppc \in {"return", "done"}
        /\ ppc = "done" =>
              /\ ret = Newest(total, total)
              /\ short
              /\ Len(reqs) = (total \div 100) + 1

\* a resource of more than one page was exhausted by a short second page
C2_Witness ==
    IsFetch /\ ppc = "done" /\ limit > total /\ total > 100 /\ short
        /\ Len(reqs) = 2 /\ Len(ret) = total

\* C3: the export yields exactly the M items, newest first, each once; the
\* first fetch carries no cursor, every later fetch carries the id of the last
\* item of the preceding page, and the first empty or short page ends it.
C3_ExportAll ==
    (op = "export") =>
        /\ short => ppc = "done"
        /\ \A k \in 1..Len(reqs) :
              /\ reqs[k].limit = 100
              /\ reqs[k].before_id =
                    IF k = 1 THEN NoCursor ELSE Newest(total, total)[100 * (k - 1)]
        /\ ppc = "done" =>
              /\ yielded = Newest(total, total)
              /\ Len(reqs) = (total \div 100) + 1

\* page sizes 100, 100, 37: 237 items, 3 fetches, cursors None, item 100, item 200
C3_Witness ==
    /\ op = "export" /\ ppc = "done" /\ total = 237
    /\ Len(yielded) = 237 /\ Len(reqs) = 3
    /\ reqs[1].before_id = NoCursor
    /\ reqs[2].before_id = yielded[100]
    /\ reqs[3].before_id = yielded[200]

\* the query occurs in the text, both compared without case (an absent text
\* or query reads as the empty string)
ContainsNoCase(qs, txt) ==
    \E s \in 0..(Len(txt) - Len(qs)) :
        \A k \in 1..Len(qs) : LowerChar(txt[s + k]) = LowerChar(qs[k])

IsHit(m) == ContainsNoCase(OrEmpty(query), OrEmpty(Text(m)))

\* the messages a search scans: the pages fetched, newest first
Scanned == Newest(total, Min(total, 100 * max_pages))

\* C9: the search returns exactly the scanned messages whose text contains the
\* query without regard to case, in scan order; for query "hello" a message
\* with text "bye" or with no text is never returned.
C9_SearchFilter ==
    (op = "search" /\ ppc = "done") =>
        /\ ret = SelectSeq(Scanned, IsHit)
        /\ query = <<"h","e","l","l","o">> =>
              \A i \in 1..Len(ret) : Text(ret[i]) \notin {Bye, NoText}

\* query "hello" found "hello world" and "HELLO there" and left "bye" out
C9_Witness ==
    /\ op = "search" /\ ppc = "done" /\ query = <<"h","e","l","l","o">>
    /\ \E i \in 1..Len(ret) : Text(ret[i]) = HelloThere
    /\ \E i \in 1..Len(ret) : Text(ret[i]) = HelloWorld
    /\ \E m \in 1..total : Text(m) = Bye
    /\ Len(reqs) >= 2

\* C14: when a page fetch fails, the pagination call ends with the error: the
\* failed request is the last one sent (no further page, no retry), the
\* bounded fetch and the search return nothing, and the export yields no item
\* after the failure.
C14_FetchErrorAborts ==
    /\ [](ppc = "raised" => (reqs # <<>> /\ ret = <<>>))
    /\ [][ppc = "raised" => UNCHANGED <<ppc, reqs, ret, yielded, collected, results>>]_vars

\* the second page of a bounded fetch failed, with the first page collected
C14_Witness ==
    /\ IsFetch /\ ppc = "raised" /\ Len(reqs) = 2
    /\ Len(collected) = 100 /\ ret = <<>>

\* C15: search_direct_messages sends at most max_pages page requests, sends
\* none after an empty or short page, and every call ends (by returning or by
\* the error of a failed fetch).
C15_SearchCapped ==
    /\ [](/\ Len(reqs) <= max_pages
          /\ short => ppc \in {"return", "done"})
    /\ <>(ppc \in {"done", "raised"})

\* the default cap ended a search while full pages were still coming
C15_Witness ==
    /\ op = "search" /\ ppc = "done" /\ max_pages = DefaultMaxPages
    /\ Len(reqs) = DefaultMaxPages /\ ~short /\ total > 100 * DefaultMaxPages

\* C16: a second bounded fetch with the same limit on the same unchanged
\* resource sends the same (cursor, page size) requests as the first, starting
\* with no cursor, and returns the same items.
C16_BoundedFetchIdempotent ==
    (IsFetch /\ ncall = 2) =>
        /\ Len(reqs) <= Len(first.reqs)
        /\ \A k \in 1..Len(reqs) : reqs[k] = first.reqs[k]
        /\ reqs # <<>> => reqs[1].before_id = NoCursor
        /\ ppc = "done" => (ret = first.ret /\ reqs = first.reqs)

\* both calls took two pages and returned the same non-empty list
C16_Witness ==
    /\ IsFetch /\ ncall = 2 /\ ppc = "done"
    /\ Len(first.reqs) = 2 /\ Len(reqs) = 2
    /\ ret # <<>> /\ ret = first.ret

\* C22: every page request of a bounded fetch asks for min(100, remaining)
\* items, remaining being the limit minus the number of items collected so
\* far; the first request carries no cursor, every later one the identifier
\* of the last (oldest) item of the page fetched just before it.
C22_PageSizeAndCursor ==
    /\ [](IsFetch =>
            /\ ppc = "loop" => remaining = limit - Len(collected)
            /\ \A k \in 1..Len(reqs) :
                  /\ reqs[k].limit = Min(100, limit - 100 * (k - 1))
                  /\ reqs[k].before_id =
                        IF k = 1 THEN NoCursor ELSE Newest(total, total)[100 * (k - 1)])
    /\ [][(IsFetch /\ reqs' # reqs) =>
            /\ Len(reqs') = Len(reqs) + 1
            /\ Last(reqs').limit = Min(100, limit - Len(collected))
            /\ Last(reqs').before_id = IF reqs = <<>> THEN NoCursor ELSE Last(collected)
            /\ collected' # collected =>
                  Last(collected') = Last(ServePage(total, Last(reqs').before_id,
                                                    Last(reqs').limit))]_vars

\* a fetch of 150 items took a page of 100 without cursor, then a page of 50
\* before the last item of the first page
C22_Witness ==
    /\ IsFetch /\ ppc = "done" /\ limit = 150 /\ total = 240
    /\ reqs = << [before_id |-> NoCursor, limit |-> 100], [before_id |-> 141, limit |-> 50] >>
    /\ Len(ret) = 150

\* ceil(n / 100) for n >= 0
PagesFor(n) == (n + 99) \div 100

\* C30: whatever pages the server returns, a bounded fetch with limit N
\* sends at most ceil(max(N, 0) / 100) page requests and returns at most
\* max(N, 0) items; with N <= 0 it sends none and returns the empty list.
C30_BoundedWork ==
    IsFetch =>
        /\ Len(reqs) <= PagesFor(Max(limit, 0))
        /\ ppc = "done" => Len(ret) <= Max(limit, 0)
        /\ limit <= 0 => (reqs = <<>> /\ ret = <<>> /\ collected = <<>>)
        /\ (ppc = "loop" /\ remaining > 0) => Len(collected) >= 100 * Len(reqs)

\* the server ignored the cursor and sent more than was asked for: the fetch
\* collected more than its limit in two requests and returned limit items,
\* an item twice
C30_Witness ==
    /\ IsFetch /\ ppc = "done" /\ limit = 150 /\ total = MaxItems
    /\ Len(reqs) = 2 /\ Len(collected) > limit
    /\ Len(ret) = limit /\ ret[101] = ret[1]

\* what a bounded fetch with limit l on a resource of m items sends and
\* returns when it runs alone (C1, C2, C22): the k-th request, and the result
AloneRequest(m, l, k) ==
    [before_id |-> IF k = 1 THEN NoCursor ELSE Newest(m, m)[100 * (k - 1)],
     limit |-> Min(100, l - 100 * (k - 1))]
AloneResult(m, l) == Newest(m, Min(Max(l, 0), m))

\* C24: two pagination calls that run interleaved do not touch each other's
\* cursor or accumulator: a step of one leaves the locals of the other as
\* they were, and whatever the interleaving each call sends the cursors and
\* returns the result it sends and returns when it runs alone.
C24_InterleavedCallsIndependent ==
    /\ [](/\ \A k \in 1..Len(other.reqs) :
                other.reqs[k] = AloneRequest(other.total, other.limit, k)
          /\ other.pc = "done" => other.ret = AloneResult(other.total, other.limit)
          /\ IsFetch =>
                /\ \A k \in 1..Len(reqs) : reqs[k] = AloneRequest(total, limit, k)
                /\ ppc = "done" => ret = AloneResult(total, limit)
          /\ op \in {"export", "search"} =>
                \A k \in 1..Len(reqs) :
                   reqs[k].before_id = AloneRequest(total, 100 * k, k).before_id
          /\ (op = "export" /\ ppc = "done") => yielded = Newest(total, total)
          /\ (op = "search" /\ ppc = "done") => ret = SelectSeq(Scanned, IsHit))
    /\ [][/\ other' # other => UNCHANGED pageVars
          /\ pageVars' # pageVars => other' = other]_vars

\* both calls are between their first and their second page, each with the
\* cursor of its own first page
C24_Witness ==
    /\ IsFetch /\ ppc = "loop" /\ Len(reqs) = 1 /\ limit = 150 /\ total = MaxItems
    /\ other.pc = "loop" /\ Len(other.reqs) = 1 /\ other.total = 150
    /\ before_id = MaxItems - 99 /\ other.before_id = 51

\* ------------------------------------------------------ claims: aggregator
RECURSIVE SumCounts(_)
SumCounts(h) == IF h = <<>> THEN 0 ELSE Head(h)[2] + SumCounts(Tail(h))

\* the positions of the input whose created_at is there and parses
ParsableAt == {i \in 1..Len(stat_messages) : stat_messages[i].created_at.k \in {"int", "str"}}

\* the positions of the input whose created_at is an integer
IntAt == {i \in 1..Len(stat_messages) : stat_messages[i].created_at.k = "int"}

\* every message is counted for its sender
AllCountedBySender ==
    \A i \in 1..Len(stat_messages) :
        \E e \in 1..Len(stats.top_posters) :
            /\ stats.top_posters[e][1] = NameOf(stat_messages[i])
            /\ stats.top_posters[e][2] =
                  Cardinality({j \in 1..Len(stat_messages) :
                                  NameOf(stat_messages[j]) = NameOf(stat_messages[i])})

\* C7: an item whose created_at is missing or unparsable adds nothing to
\* hour_hist and is still counted for its sender: the hour_hist counts sum to
\* the number of items that carry a parsable created_at.
C7_MissingSkipped ==
    spc = "done" =>
        /\ SumCounts(stats.hour_hist) = Cardinality(ParsableAt)
        /\ AllCountedBySender

\* the hour h with h*3600 <= t - 86400*d < (h+1)*3600 for some whole day d
InHour(t, h) == \E d \in (-1)..1 : (t - 86400 * d - 3600 * h) \in 0..3599

\* C8: the bucket of an integer created_at = t is (t // 3600) mod 24: every
\* reported hour lies in 0..23, every integer timestamp is counted in the hour
\* of day it falls in, timestamps a multiple of 86400 s apart share a bucket,
\* and hour_hist is listed in strictly ascending hour order.
C8_HourBuckets ==
    spc = "done" =>
        LET hist == stats.hour_hist
        IN /\ \A e \in 1..Len(hist) : hist[e][1] \in 0..23 /\ hist[e][2] >= 1
           /\ \A e \in 1..(Len(hist) - 1) : hist[e][1] < hist[e + 1][1]
           /\ \A i \in IntAt :
                 \E e \in 1..Len(hist) :
                     /\ InHour(stat_messages[i].created_at.v, hist[e][1])
                     /\ hist[e][2] >= Cardinality({j \in IntAt :
                                         InHour(stat_messages[j].created_at.v, hist[e][1])})
           /\ \A i, j \in IntAt :
                 (stat_messages[i].created_at.v - stat_messages[j].created_at.v) % 86400 = 0 =>
                     Hour(stat_messages[i].created_at.v) = Hour(stat_messages[j].created_at.v)
           /\ IntAt = 1..Len(stat_messages) => SumCounts(hist) = Len(stat_messages)

\* created_at = 3600*1 and 3600*25 were both counted in hour 1
C8_Witness ==
    /\ spc = "done" /\ Len(stat_messages) = 2
    /\ stat_messages[1].created_at = IntStamp(3600)
    /\ stat_messages[2].created_at = IntStamp(3600 * 25)
    /\ stats.hour_hist = << <<1, 2>> >>

\* the keys under which the senders of the input are counted, the number of
\* messages of each, and the position at which each is first met
SenderKeys == {NameOf(stat_messages[i]) : i \in 1..Len(stat_messages)}
CountOf(k) == Cardinality({i \in 1..Len(stat_messages) : NameOf(stat_messages[i]) = k})
FirstAt(k) == CHOOSE i \in 1..Len(stat_messages) :
                 /\ NameOf(stat_messages[i]) = k
                 /\ \A j \in 1..(i - 1) : NameOf(stat_messages[j]) # k

\* the place of sender k: after the senders with more messages and after the
\* senders with as many that were met earlier
SenderRank(k) ==
    1 + Cardinality({o \in SenderKeys :
                        \/ CountOf(o) > CountOf(k)
                        \/ (CountOf(o) = CountOf(k) /\ FirstAt(o) < FirstAt(k))})

\* C25: top_posters lists min(10, number of senders) senders, keyed by name
\* or else sender_id, each with its exact number of messages, in
\* non-increasing order of count and, among equal counts, in the order of
\* first appearance in the input; the senders left out come after the listed
\* ones in that order.
C25_TopPosters ==
    spc = "done" =>
        LET tp == stats.top_posters
        IN /\ Len(tp) = Min(10, Cardinality(SenderKeys))
           /\ \A k \in SenderKeys :
                 SenderRank(k) <= 10 => tp[SenderRank(k)] = <<k, CountOf(k)>>
           /\ \A e \in 1..(Len(tp) - 1) :
                 \/ tp[e][2] > tp[e + 1][2]
                 \/ (tp[e][2] = tp[e + 1][2] /\ FirstAt(tp[e][1]) < FirstAt(tp[e + 1][1]))

\* eleven senders: the eleventh wrote twice and leads the list, the others
\* follow in the order of their first message, and the tenth is left out
C25_Witness ==
    /\ spc = "done" /\ Cardinality(SenderKeys) = 11
    /\ Len(stats.top_posters) = 10
    /\ stats.top_posters[1] = <<"n11", 2>>
    /\ stats.top_posters[2] = <<"n1", 1>>
    /\ stats.top_posters[10] = <<"n9", 1>>

\* the place of the i-th message: after the messages with more likes and
\* after the earlier messages with as many
LikeRank(i) ==
    1 + Cardinality({j \in 1..Len(stat_messages) :
                        \/ stat_messages[j].favorited_by > stat_messages[i].favorited_by
                        \/ (stat_messages[j].favorited_by = stat_messages[i].favorited_by
                            /\ j < i)})

\* C26: most_liked lists min(10, number of messages) pairs (likes, message)
\* with likes the size of favorited_by, in non-increasing order of likes and,
\* among equal likes, in input order; no message left out has more likes
\* than a listed one.
C26_MostLiked ==
    spc = "done" =>
        LET ml == stats.most_liked
        IN /\ Len(ml) = Min(10, Len(stat_messages))
           /\ \A i \in 1..Len(stat_messages) :
                 LikeRank(i) <= 10 =>
                    ml[LikeRank(i)] = <<stat_messages[i].favorited_by, stat_messages[i]>>
           /\ \A e \in 1..(Len(ml) - 1) : ml[e][1] >= ml[e + 1][1]
           /\ \A i \in 1..Len(stat_messages) :
                 LikeRank(i) > 10 =>
                    \A e \in 1..Len(ml) : stat_messages[i].favorited_by <= ml[e][1]

\* of more than ten messages only the last two are liked: they lead the
\* list in input order, then come the first eight
C26_Witness ==
    /\ spc = "done" /\ Len(stat_messages) > 10
    /\ Len(stats.most_liked) = 10
    /\ stats.most_liked[1] = <<1, stat_messages[Len(stat_messages) - 1]>>
    /\ stats.most_liked[2] = <<1, stat_messages[Len(stat_messages)]>>
    /\ stats.most_liked[3] = <<0, stat_messages[1]>>
    /\ stats.most_liked[10] = <<0, stat_messages[8]>>

\* the input in the opposite order, and what stats_from_messages makes of it
Reverse(s) == [i \in 1..Len(s) |-> s[Len(s) + 1 - i]]
StatsOfReversed == StatsFromMessages(Reverse(stat_messages))

\* the counts of a list of pairs, component c, in list order
CountsOf(s, c) == [e \in 1..Len(s) |-> s[e][c]]

IsHsEntry(e) == e.t = "obj" /\ e.channel = "/meta/handshake" /\ e.clientId # Null

\* the handshake reply carries no session identifier: a batch without an
\* /meta/handshake entry carrying a clientId, or an object without clientId
NoSessionId(r) ==
    \/ r.t = "list" /\ \A i \in 1..Len(r.v) : ~IsHsEntry(r.v[i])
    \/ r.t = "obj" /\ r.v[1].clientId = Null

Subscribes == {n \in 1..Len(sent) : sent[n].channel = "/meta/subscribe"}

\* C4: when the handshake reply carries no session identifier the handler
\* fails with a ProtocolError, sends no subscribe request and delivers no event.
C4_NoSessionFails ==
    (hs_resp # NoFrame /\ NoSessionId(hs_resp)) =>
        /\ wpc = "done" /\ werr = "ProtocolError"
        /\ Subscribes = {}
        /\ delivered = <<>>

\* C5: when the handshake reply is a batch, the session identifier is the
\* clientId of the (first) entry on /meta/handshake that has a non-empty one,
\* wherever it stands and whatever clientId entries on other channels carry
\* (None when there is no such entry), and every subscribe request carries it.
C5_BatchSessionId ==
    /\ hs_resp.t = "list" =>
          LET b == hs_resp.v
              hits == {i \in 1..Len(b) : IsHsEntry(b[i]) /\ b[i].clientId # ""}
          IN IF hits = {}
             THEN client_id = Null
             ELSE \E i \in hits : (\A j \in hits : i <= j) /\ client_id = b[i].clientId
    /\ \A n \in Subscribes : sent[n].clientId = client_id

\* a batch whose second entry is the handshake reply, after an entry of
\* another channel with a clientId of its own, was used for a subscribe request
C5_Witness ==
    /\ wpc = "sub_recv"
    /\ hs_resp = ListFrame(<<Obj("/meta/connect", "xyz", Null, NoExt),
                             Obj("/meta/handshake", "abc", Null, NoExt)>>)
    /\ client_id = "abc"
    /\ sent = <<HandshakeMsg, SubscribeMsg("abc", channels[1])>>

\* C6: demultiplexing of one envelope: with a data field the event is that
\* payload; otherwise with ext.data present the event is ext.data; there is
\* no event if and only if neither is present.
C6_DemuxByPresence ==
    [][(wpc = "demux" /\ envelopes' = Tail(envelopes) /\ Head(envelopes).t = "obj") =>
          LET env == Head(envelopes)
          IN IF env.data # Null
             THEN delivered' = Append(delivered, env.data)
             ELSE IF env.ext.t = "obj" /\ env.ext.data # Null
             THEN delivered' = Append(delivered, env.ext.data)
             ELSE delivered' = delivered]_vars

\* C10: the connection watch_group opened is released on every exit path: no
\* ended session has its connection still open, and a session that got as far
\* as sending has closed it.
C10_ConnectionReleased ==
    wpc = "done" =>
        /\ conn # "open"
        /\ sent # <<>> => conn = "closed"

\* an unparsable handshake reply ended the session, and the socket was closed
C10_Witness ==
    /\ wpc = "done" /\ werr = "JSONDecodeError"
    /\ sent = <<HandshakeMsg>> /\ nframes = 1
    /\ conn = "closed"

\* the session was ended by the consumer: cancelled at an await, or closed at
\* the yield
Cancelled == werr \in {"CancelledError", "GeneratorExit"}

\* C11: when the consumer cancels or stops consuming, the connection that was
\* opened is closed, it is closed exactly once, and neither the step in which
\* the cancellation lands nor any later step sends anything (no unsubscribe).
C11_CancelCloses ==
    /\ [](( Cancelled /\ conn # "none") => (wpc = "done" /\ conn = "closed" /\ closes = 1))
    /\ [][Cancelled' => sent' = sent]_vars

\* the consumer stopped at the yield of an event, after a subscription
C11_Witness ==
    /\ werr = "GeneratorExit" /\ delivered # <<>>
    /\ channels # <<>> /\ Len(sent) = 1 + Len(channels)
    /\ conn = "closed" /\ closes = 1

\* the listen loop has been entered
Streaming == ch_i = Len(channels) + 1

\* C12: a malformed frame received while streaming (not an object, or not
\* parsable JSON) is skipped and is not fatal: unless the transport fails or
\* the consumer cancels, a session that entered the listen loop stays in it
\* with its connection open.
C12_MalformedNotFatal ==
    (Streaming /\ werr \notin {"TransportError", "CancelledError", "GeneratorExit"}) =>
        /\ wpc \in {"listen", "demux", "yield"}
        /\ conn = "open"
        /\ werr = "none"

\* C13: a transport failure at any stage ends the session with the error and
\* the session stays ended: the connection is not open, and no later step
\* connects, sends, receives or delivers.
C13_TransportFailTerminal ==
    /\ [](werr = "TransportError" => (wpc = "done" /\ conn # "open"))
    /\ [][werr = "TransportError" =>
            UNCHANGED <<wpc, conn, closes, sent, wire, nframes, delivered>>]_vars

\* the connection dropped while streaming, after an event had been delivered
C13_Witness ==
    /\ wpc = "done" /\ werr = "TransportError"
    /\ Streaming /\ delivered # <<>> /\ conn = "closed"

\* the state of the protocol handler: Init, Handshaking, Subscribed,
\* Streaming, Closed
Stage ==
    CASE wpc \in {"idle", "start"} -> 0
      [] wpc \in {"hs_send", "hs_recv"} -> 1
      [] wpc \in {"sub_send", "sub_recv"} -> 2
      [] wpc \in {"listen", "demux", "yield"} -> 3
      [] OTHER -> 4

\* C20: the sends are one handshake request followed by the subscribe
\* requests, one per channel in the order given; all of them are sent before
\* the receive loop is entered and none after; the session moves through
\* Init, Handshaking, Subscribed, Streaming forward only, one state at a time
\* (with no channel to subscribe to, Subscribed is passed without a step).
C20_SendsBeforeStreaming ==
    /\ [](/\ Len(sent) <= 1 + Len(channels)
          /\ \A n \in 1..Len(sent) :
                sent[n] = IF n = 1 THEN HandshakeMsg
                          ELSE SubscribeMsg(sent[n].clientId, channels[n - 1])
          /\ Stage = 3 => Len(sent) = 1 + Len(channels)
          /\ Stage <= 1 => Len(sent) <= 1)
    /\ [][/\ sent' # sent => (Stage \in {1, 2} /\ Stage' = Stage)
          /\ \/ Stage' \in {Stage, Stage + 1, 4}
             \/ (Stage = 1 /\ Stage' = 3 /\ channels = <<>>)]_vars

\* two channels were subscribed to, in order, before the listen loop began
C20_Witness ==
    /\ wpc = "listen" /\ Len(channels) = 2
    /\ Len(sent) = 3 /\ sent[1] = HandshakeMsg
    /\ sent[2].subscription = channels[1] /\ sent[3].subscription = channels[2]

\* the frames the client has taken off the connection so far
Consumed == nframes - (IF wire = NoFrame THEN 0 ELSE 1)

\* a step that takes a frame off the connection
Receives == wire # NoFrame /\ wire' = NoFrame

\* C21: a session with k channels sends exactly k subscribe requests, the
\* n-th carrying the client id of the handshake and the n-th channel; each
\* subscribe request is followed by the receipt of exactly one frame, which
\* is handed to nobody, before the next request is sent or the listen loop
\* is entered.
C21_SubscribeThenOneReply ==
    /\ [](/\ \A n \in 2..Len(sent) : sent[n] = SubscribeMsg(client_id, channels[n - 1])
          /\ wpc = "sub_send" => (Len(sent) = ch_i /\ Consumed = ch_i)
          /\ wpc = "sub_recv" => (Len(sent) = ch_i + 1 /\ Consumed = ch_i)
          /\ Stage = 3 => (Len(sent) = 1 + Len(channels) /\ Consumed >= 1 + Len(channels))
          /\ Stage <= 2 => delivered = <<>>)
    /\ [][/\ (wpc = "sub_send" /\ wpc' # "done") =>
                (wpc' = "sub_recv" /\ Len(sent') = Len(sent) + 1 /\ ~Receives)
          /\ (wpc = "sub_recv" /\ wpc' \notin {"sub_recv", "done"}) =>
                (/\ Receives /\ nframes' = nframes
                 /\ sent' = sent /\ delivered' = delivered
                 /\ ch_i' = ch_i + 1
                 /\ wpc' = IF ch_i < Len(channels) THEN "sub_send" ELSE "listen")]_vars

\* two subscribe requests carried the client id of the handshake, each was
\* followed by one frame, and the listen loop began with the third frame taken
C21_Witness ==
    /\ wpc = "listen" /\ Len(channels) = 2 /\ client_id = "abc"
    /\ sent = <<HandshakeMsg, SubscribeMsg("abc", channels[1]), SubscribeMsg("abc", channels[2])>>
    /\ nframes = 3 /\ wire = NoFrame /\ delivered = <<>>

\* C23: in the listen loop a frame is taken off the connection only when no
\* envelope of an earlier frame is left and the consumer has asked for the
\* next event: one frame at most is being worked on, and while the consumer
\* holds an event the generator receives nothing.
C23_OneFramePending ==
    /\ [](/\ wpc = "listen" => envelopes = <<>>
          /\ wpc = "yield" => delivered # <<>>)
    /\ [][/\ (Stage = 3 /\ Receives) => (wpc = "listen" /\ envelopes = <<>>)
          /\ wpc \in {"demux", "yield"} => ~Receives
          /\ (wpc = "yield" /\ wpc' # "done") =>
                (envelopes' = envelopes /\ delivered' = delivered
                 /\ wpc' = IF envelopes = <<>> THEN "listen" ELSE "demux")]_vars

\* both events of a batch were handed over, one after the other, before the
\* generator awaits the next frame
C23_Witness ==
    /\ wpc = "listen" /\ envelopes = <<>> /\ wire = NoFrame
    /\ channels = <<>> /\ nframes = 2
    /\ delivered = <<"like", "msg">>

\* an object envelope in which the demultiplexer finds a payload: a data
\* member, or else a non-empty ext.data
DataBearing(env) ==
    /\ env.t = "obj"
    /\ \/ env.data # Null
       \/ (env.ext.t = "obj" /\ Truthy(env.ext.data))

\* the envelopes of a frame, in the order of the frame
FrameEnvelopes(f) == IF f.t = "scalar" THEN <<ScalarElt>> ELSE f.v

\* C28: in the listen loop the envelopes of a received frame are taken in
\* the order of the frame, one at a time from the front; the event of every
\* data-bearing object envelope is appended to what the consumer has got,
\* once, and nothing else is; no envelope is left when the next frame is
\* awaited.  So events arrive in the order of receipt, none dropped,
\* duplicated or reordered.
C28_InOrderExactlyOnce ==
    /\ [](wpc = "listen" => envelopes = <<>> )
    /\ [][/\ (wpc = "listen" /\ Receives /\ wpc' # "done") =>
                (envelopes' = FrameEnvelopes(wire) /\ delivered' = delivered)
          /\ wpc = "demux" =>
                LET env == Head(envelopes)
                IN /\ envelopes' = Tail(envelopes)
                   /\ delivered' = IF DataBearing(env)
                                   THEN Append(delivered,
                                               IF env.data # Null THEN env.data
                                               ELSE env.ext.data)
                                   ELSE delivered
          /\ wpc # "demux" => (delivered' = delivered)
          /\ (wpc \notin {"listen", "demux"}) => envelopes' = envelopes]_vars

\* a second frame's event was delivered after the two events of a batch
C28_Witness ==
    /\ wpc = "yield" /\ envelopes = <<>>
    /\ nframes = 3 /\ channels = <<>>
    /\ delivered = <<"like", "msg", "like">>

\* C29: the frame received after a subscribe request is dropped whatever it
\* holds: nothing has been handed to the consumer when the listen loop
\* begins, also when an event frame stood where the reply was awaited; the
\* reply to the subscribe request, arriving in the listen loop, is taken as
\* any other frame and yields no event.
C29_AckPositionFrameLost ==
    /\ [](/\ Stage <= 2 => delivered = <<>>
          /\ (wpc = "listen" /\ Consumed = 1 + Len(channels)) => delivered = <<>>)
    /\ [][/\ wpc = "sub_recv" => delivered' = delivered
          /\ (wpc = "sub_recv" /\ Receives /\ wire.t # "bad") =>
                (envelopes' = <<>> /\ wpc' \in {"sub_send", "listen"})
          /\ (wpc = "demux" /\ Head(envelopes).channel = "/meta/subscribe") =>
                (delivered' = delivered /\ wpc' # "done")]_vars

\* an event frame stands where the reply to the last subscribe request is awaited
C29_Witness ==
    /\ wpc = "sub_recv" /\ ch_i = Len(channels)
    /\ wire = ObjFrame(Obj("/user/1", Null, "like", NoExt))
    /\ delivered = <<>>

\* ------------------------------------------------------ claims: bulk likes
\* an item that names a conversation and a message
HasIds(item) ==
    /\ item.t = "obj"
    /\ item.conversation_id \notin {Null, ""}
    /\ item.message_id \notin {Null, ""}

\* the positions of the input that went the way w
Went(w) == {i \in 1..Len(tried) : tried[i] \in w}

\* the items of ids[1..n] that did not succeed, in input order
RECURSIVE FailedItems(_)
FailedItems(n) ==
    IF n = 0 THEN <<>>
    ELSE IF tried[n] = "ok" THEN FailedItems(n - 1)
    ELSE Append(FailedItems(n - 1), ids[n])

\* the items of ids[1..n] that carry both ids, as the requests made for them
RECURSIVE ExpectedPosts(_)
ExpectedPosts(n) ==
    IF n = 0 THEN <<>>
    ELSE IF HasIds(ids[n])
    THEN Append(ExpectedPosts(n - 1),
                LikePost(bulk_op, ids[n].conversation_id, ids[n].message_id))
    ELSE ExpectedPosts(n - 1)

\* C17: bulk_like / bulk_unlike never raise and try every item in order: at
\* the return every item has been tried, one request was sent for each item
\* that carries both ids (in input order, whatever happened to earlier items)
\* and none for the others; ok counts the requests that succeeded, errors
\* holds one entry per item that did not, in input order, failed is their
\* number, and ok + failed is the number of items.
C17_BulkSummary ==
    /\ bpc \in {"idle", "call", "loop", "done"}
    /\ bpc = "done" =>
          /\ Len(tried) = Len(ids)
          /\ \A i \in 1..Len(ids) : HasIds(ids[i]) <=> tried[i] \in {"ok", "failed"}
          /\ posts = ExpectedPosts(Len(ids))
          /\ summary.ok = Cardinality(Went({"ok"}))
          /\ summary.failed = Cardinality(Went({"failed", "missing"}))
          /\ summary.ok + summary.failed = Len(ids)
          /\ Len(summary.errors) = summary.failed
          /\ \A e \in 1..Len(summary.errors) :
                summary.errors[e].item = FailedItems(Len(ids))[e]

\* the first item failed at the server, the second was still sent and liked
C17_Witness ==
    /\ bpc = "done" /\ tried = <<"failed", "ok">>
    /\ Len(posts) = 2 /\ summary.ok = 1 /\ summary.failed = 1

\* ------------------------------------------------------ claims: _request
\* the REST call failed: no reply, a non-OK status, or a body that is not JSON
RequestFailed ==
    \/ http_resp.net = "error"
    \/ http_resp.net = "ok" /\ (~Ok(http_resp.status) \/ ~http_resp.body.valid)

\* C18: every failed call of _request (network failure, non-OK status, body
\* that is not JSON, raw or not) ends in GroupMeAPIError carrying the status
\* code (-1 for a network failure) and the URL; it never returns normally and
\* never raises another exception.
C18_FailureIsGroupMeAPIError ==
    (rpc = "done" /\ RequestFailed) =>
        /\ result.kind = "GroupMeAPIError"
        /\ result.status_code = IF http_resp.net = "error" THEN -1 ELSE http_resp.status
        /\ result.url = Url(req_path)

\* ------------------------------------------------ claims: list_all_groups
\* C19: list_all_groups asks for the pages 1, 2, 3, ... in this order; every
\* page it asked for before the last request held groups, so nothing is
\* requested after an empty page; what it returns is the requested pages put
\* together in request order, which is every group once; and every call ends
\* (by returning or by the error of a failed request).
C19_ListAllGroups ==
    /\ [](/\ \A k \in 1..Len(page_reqs) : page_reqs[k] = k
          /\ \A k \in 1..(Len(page_reqs) - 1) : GroupsPage(ngroups, k) # <<>>
          /\ gpc = "done" =>
                /\ GroupsPage(ngroups, Len(page_reqs)) = <<>>
                /\ groups_ret = [i \in 1..ngroups |-> i]
                /\ Len(page_reqs) = ((ngroups + PerPage - 1) \div PerPage) + 1)
    /\ <>(gpc \in {"done", "raised"})

\* 25 groups: pages 1, 2, 3 hold groups, page 4 is empty and ends the call
C19_Witness ==
    /\ gpc = "done" /\ ngroups = 25
    /\ page_reqs = <<1, 2, 3, 4>> /\ Len(groups_ret) = 25

====
